---- MODULE Spec2Model ----
(***************************************************************************)
(* A model of the interview fraud-scoring engine: FraudDetectionService    *)
(* (session store, ingestion, behavioural analysis, fusion scoring) and    *)
(* KeystrokeAnalyzer and CodeStylometryAnalyzer.                           *)
(*                                                                         *)
(* Numbers.  Times are integers in milliseconds.  Confidences are kept in  *)
(* tenths (0.3 is 3) and scores and reason weights in tenths of a point    *)
(* (18.0 is 180), so that confidence*30 and confidence*25 stay integers.   *)
(* Means and variances are exact fractions <<numerator, denominator>>.     *)
(* A sum of weights in IEEE-754 doubles can end one ulp beside the double  *)
(* written k/10: where that changes a decision of the code (0.1 + 0.2 >    *)
(* 0.3, a probability > 0.7) it is modelled explicitly, in                 *)
(* detectTypingAnomalies, calculateAIGeneratedProbability and              *)
(* detectCodeAnomalies; the confidences and scores themselves are kept to  *)
(* the tenth.                                                              *)
(***************************************************************************)
EXTENDS Integers, Sequences, FiniteSets, TLC

(***************************************************************************)
(* Bounds of the model.                                                    *)
(***************************************************************************)
MaxOps == 3

(***************************************************************************)
(* Session ids.  GenIds are ids startInterview can hand out; "unknown" is  *)
(* the literal the scorer falls back to; NeverId is an id no operation of  *)
(* the model ever names.                                                   *)
(***************************************************************************)
GenIds == {"s1", "s2"}
UnknownId == "unknown"
Ids == GenIds \cup {UnknownId}
\* the ids the model's clients send telemetry for
IngestIds == {"s1", UnknownId}
NeverId == "s0"

(***************************************************************************)
(* Map<string, V>: a function whose domain is the set of keys present.     *)
(***************************************************************************)
EmptyMap == << >>
Has(m, k) == k \in DOMAIN m
Get(m, k) == IF k \in DOMAIN m THEN m[k] ELSE << >>
Put(m, k, v) == [x \in (DOMAIN m) \cup {k} |-> IF x = k THEN v ELSE m[x]]
Del(m, k) == [x \in (DOMAIN m) \ {k} |-> m[x]]

Range(s) == {s[i] : i \in DOMAIN s}
Last(s) == s[Len(s)]
Front(s) == SubSeq(s, 1, Len(s) - 1)
Min2(a, b) == IF a <= b THEN a ELSE b
Max2(a, b) == IF a >= b THEN a ELSE b

RECURSIVE SumSeq(_)
SumSeq(s) == IF s = << >> THEN 0 ELSE SumSeq(Front(s)) + Last(s)

RECURSIVE SumSq(_)
SumSq(s) == IF s = << >> THEN 0 ELSE SumSq(Front(s)) + Last(s) * Last(s)

RECURSIVE Gcd(_, _)
Gcd(a, b) == IF b = 0 THEN a ELSE Gcd(b, a % b)

\* a fraction in lowest terms, denominator positive
Frac(n, d) ==
  LET g == Gcd(IF n < 0 THEN -n ELSE n, d)
  IN IF g = 0 THEN <<0, 1>> ELSE <<n \div g, d \div g>>
FracLess(f, k) == f[1] < k * f[2]
FracMore(f, k) == f[1] > k * f[2]

(***************************************************************************)
(* Array.prototype.sort((a, b) => a.t - b.t): stable, ascending by t.      *)
(***************************************************************************)
RECURSIVE InsertByT(_, _)
InsertByT(s, x) ==
  IF s = << >> THEN <<x>>
  ELSE IF Last(s).t <= x.t THEN Append(s, x)
  ELSE Append(InsertByT(Front(s), x), Last(s))

RECURSIVE SortByT(_)
SortByT(s) == IF s = << >> THEN << >> ELSE InsertByT(SortByT(Front(s)), Last(s))

RECURSIVE InsertByStartMs(_, _)
InsertByStartMs(s, x) ==
  IF s = << >> THEN <<x>>
  ELSE IF Last(s).startMs <= x.startMs THEN Append(s, x)
  ELSE Append(InsertByStartMs(Front(s), x), Last(s))

RECURSIVE SortByStartMs(_)
SortByStartMs(s) ==
  IF s = << >> THEN << >> ELSE InsertByStartMs(SortByStartMs(Front(s)), Last(s))

(***************************************************************************)
(* KeystrokeAnalyzer                                                       *)
(***************************************************************************)
MinLatency == 10
MaxLatency == 2000
MaxHold == 2000
MinPause == 100
LongPause == 5000
UniformVariance == 50
FastSpeed == 200
SlowSpeed == 20
ConsistentDigraphVariance == 100
MsPerMinute == 60000

KeyLength(k) == IF k \in {"a", "b"} THEN 1 ELSE 5

\* the band without its two ends
InBandExclusive(latency) == latency > MinLatency /\ latency < MaxLatency

InBand(latency) == latency >= MinLatency /\ latency <= MaxLatency

\* the digraphs one pass of analyzeDigraphs pushes, in order
analyzeDigraphs(sessionId, events) ==
  LET idx == [i \in 1..(Len(events) - 1) |-> i]
      hit(i) == /\ events[i].action = "up"
                /\ events[i + 1].action = "down"
                /\ InBand(events[i + 1].t - events[i].t)
      hits == SelectSeq(idx, hit)
  IN [j \in 1..Len(hits) |->
        [sessionId |-> sessionId,
         key1 |-> events[hits[j]].key,
         key2 |-> events[hits[j] + 1].key,
         latency |-> events[hits[j] + 1].t - events[hits[j]].t,
         timestamp |-> events[hits[j] + 1].t]]

\* the trigraphs one pass of analyzeTrigraphs pushes; the condition is the
\* code's: the middle event is tested for "down" and for "up"
analyzeTrigraphs(sessionId, events) ==
  LET idx == [i \in 1..(Len(events) - 2) |-> i]
      hit(i) == /\ events[i].action = "up"
                /\ events[i + 1].action = "down"
                /\ events[i + 1].action = "up"
                /\ events[i + 2].action = "down"
                /\ InBand(events[i + 1].t - events[i].t)
                /\ InBand(events[i + 2].t - events[i + 1].t)
      hits == SelectSeq(idx, hit)
  IN [j \in 1..Len(hits) |->
        [sessionId |-> sessionId,
         key1 |-> events[hits[j]].key,
         key2 |-> events[hits[j] + 1].key,
         key3 |-> events[hits[j] + 2].key,
         latency1 |-> events[hits[j] + 1].t - events[hits[j]].t,
         latency2 |-> events[hits[j] + 2].t - events[hits[j] + 1].t,
         timestamp |-> events[hits[j] + 2].t]]

\* the analyzer's state: ka = [events, digraphs, trigraphs, profiles], four maps
recordKeystroke(ka, sessionId, event) ==
  LET events == Append(Get(ka.events, sessionId), event)
  IN [ka EXCEPT
        !.events = Put(ka.events, sessionId, events),
        !.digraphs =
           IF Len(events) < 2 THEN ka.digraphs
           ELSE Put(ka.digraphs, sessionId,
                    Get(ka.digraphs, sessionId) \o analyzeDigraphs(sessionId, events)),
        !.trigraphs =
           IF Len(events) < 3 THEN ka.trigraphs
           ELSE Put(ka.trigraphs, sessionId,
                    Get(ka.trigraphs, sessionId) \o analyzeTrigraphs(sessionId, events))]

\* an empty profile with a typing speed of one key a second
createEmptyProfileDefaultSpeed(sessionId) ==
  [sessionId |-> sessionId,
   averageSpeed |-> <<60, 1>>,
   digraphLatencies |-> EmptyMap,
   trigraphLatencies |-> EmptyMap,
   keyHoldDurations |-> EmptyMap,
   pauseDistribution |-> << >>,
   variance |-> <<0, 1>>]

createEmptyProfile(sessionId) ==
  [sessionId |-> sessionId,
   averageSpeed |-> <<0, 1>>,
   digraphLatencies |-> EmptyMap,
   trigraphLatencies |-> EmptyMap,
   keyHoldDurations |-> EmptyMap,
   pauseDistribution |-> << >>,
   variance |-> <<0, 1>>]

\* events is the array after getSessionDuration has sorted it
getSessionDuration(sorted) ==
  IF Len(sorted) < 2 THEN 0 ELSE Last(sorted).t - sorted[1].t

IsDown(e) == e.action = "down"
IsChar(e) == e.action = "down" /\ KeyLength(e.key) = 1

\* mean latency per key pair
groupDigraphsByKeyPair(digraphs) ==
  LET pairs == {<<d.key1, d.key2>> : d \in Range(digraphs)}
      of(p) == LET same(d) == <<d.key1, d.key2>> = p
                   g == SelectSeq(digraphs, same)
               IN [i \in 1..Len(g) |-> g[i].latency]
  IN [p \in pairs |-> Frac(SumSeq(of(p)), Len(of(p)))]

\* mean of (latency1 + latency2) / 2 per key triple
groupTrigraphsByKeyTriple(trigraphs) ==
  LET triples == {<<d.key1, d.key2, d.key3>> : d \in Range(trigraphs)}
      of(p) == LET same(d) == <<d.key1, d.key2, d.key3>> = p
                   g == SelectSeq(trigraphs, same)
               IN [i \in 1..Len(g) |-> g[i].latency1 + g[i].latency2]
  IN [p \in triples |-> Frac(SumSeq(of(p)), 2 * Len(of(p)))]

calculateKeyHoldDurations(events) ==
  LET idx == [i \in 1..(Len(events) - 1) |-> i]
      hit(i) == /\ events[i].action = "down"
                /\ events[i + 1].action = "up"
                /\ events[i].key = events[i + 1].key
                /\ events[i + 1].t - events[i].t > 0
                /\ events[i + 1].t - events[i].t < MaxHold
      hits == SelectSeq(idx, hit)
      keys == {events[hits[j]].key : j \in 1..Len(hits)}
      of(k) == LET same(i) == events[i].key = k
                   g == SelectSeq(hits, same)
               IN [j \in 1..Len(g) |-> events[g[j] + 1].t - events[g[j]].t]
  IN [k \in keys |-> Frac(SumSeq(of(k)), Len(of(k)))]

\* gaps between consecutive key presses, presses sorted by time
PressIntervals(events) ==
  LET keyPresses == SortByT(SelectSeq(events, IsDown))
  IN [i \in 1..(Len(keyPresses) - 1) |-> keyPresses[i + 1].t - keyPresses[i].t]

calculatePauseDistribution(events) ==
  LET long(p) == p > MinPause
  IN SelectSeq(PressIntervals(events), long)

\* the variance of the gaps between all events, releases included
calculateInterKeystrokeVarianceAllEvents(events) ==
  LET sorted == SortByT(events)
      intervals == [i \in 1..(Len(sorted) - 1) |-> sorted[i + 1].t - sorted[i].t]
      n == Len(intervals)
  IN IF n = 0 THEN <<0, 1>>
     ELSE Frac(n * SumSq(intervals) - SumSeq(intervals) * SumSeq(intervals), n * n)

calculateInterKeystrokeVariance(events) ==
  LET intervals == PressIntervals(events)
      n == Len(intervals)
  IN IF n = 0 THEN <<0, 1>>
     ELSE Frac(n * SumSq(intervals) - SumSeq(intervals) * SumSeq(intervals), n * n)

\* the profile generateTypingProfile returns for the session's events
ProfileOf(sessionId, events, digraphs, trigraphs) ==
  LET sorted == SortByT(events)
      sessionDuration == getSessionDuration(sorted)
      characterCount == Len(SelectSeq(sorted, IsChar))
  IN IF Len(events) = 0 THEN createEmptyProfile(sessionId)
     ELSE [sessionId |-> sessionId,
           averageSpeed |->
              IF sessionDuration > 0
              THEN Frac(characterCount * MsPerMinute, sessionDuration)
              ELSE <<0, 1>>,
           digraphLatencies |-> groupDigraphsByKeyPair(digraphs),
           trigraphLatencies |-> groupTrigraphsByKeyTriple(trigraphs),
           keyHoldDurations |-> calculateKeyHoldDurations(sorted),
           pauseDistribution |-> calculatePauseDistribution(sorted),
           variance |-> calculateInterKeystrokeVariance(sorted)]

\* generateTypingProfile caching the empty profile of a session without events
generateTypingProfileCachesEmpty(ka, sessionId) ==
  LET events == Get(ka.events, sessionId)
  IN [ka EXCEPT
        !.events = IF Len(events) < 2 THEN ka.events
                   ELSE Put(ka.events, sessionId, SortByT(events)),
        !.profiles = Put(ka.profiles, sessionId,
                         ProfileOf(sessionId, events,
                                   Get(ka.digraphs, sessionId),
                                   Get(ka.trigraphs, sessionId)))]

\* the analyzer after generateTypingProfile: getSessionDuration sorts the
\* session's event array in place, and the profile is cached unless empty
generateTypingProfile(ka, sessionId) ==
  LET events == Get(ka.events, sessionId)
  IN IF Len(events) = 0 THEN ka
     ELSE [ka EXCEPT
             !.events = IF Len(events) < 2 THEN ka.events
                        ELSE Put(ka.events, sessionId, SortByT(events)),
             !.profiles = Put(ka.profiles, sessionId,
                              ProfileOf(sessionId, events,
                                        Get(ka.digraphs, sessionId),
                                        Get(ka.trigraphs, sessionId)))]

\* population variance of the per-pair means, as a fraction
calculateDigraphVariance(digraphLatencies) ==
  LET ps == DOMAIN digraphLatencies
      k == Cardinality(ps)
      RECURSIVE Lcm(_)
      Lcm(S) == IF S = {} THEN 1
                ELSE LET p == CHOOSE x \in S : TRUE
                         r == Lcm(S \ {p})
                         d == digraphLatencies[p][2]
                     IN (r \div Gcd(r, d)) * d
      D == Lcm(ps)
      RECURSIVE Scaled(_)
      Scaled(S) == IF S = {} THEN << >>
                   ELSE LET p == CHOOSE x \in S : TRUE
                        IN Append(Scaled(S \ {p}),
                                  digraphLatencies[p][1] * (D \div digraphLatencies[p][2]))
      a == Scaled(ps)
  IN IF k < 2 THEN <<0, 1>>
     ELSE Frac(k * SumSq(a) - SumSeq(a) * SumSeq(a), k * k * D * D)

NoAnomalies == [isSuspicious |-> FALSE, anomalies |-> << >>, confidence |-> 0]

\* has: whether typingProfiles holds a profile; confidence in tenths
detectTypingAnomalies(has, profile) ==
  LET uniform == FracLess(profile.variance, UniformVariance)
      fast == FracMore(profile.averageSpeed, FastSpeed)
      slow == ~fast /\ FracLess(profile.averageSpeed, SlowSpeed)
      isLong(p) == p > LongPause
      longPauses == Len(SelectSeq(profile.pauseDistribution, isLong))
      totalPauses == Len(profile.pauseDistribution)
      pausing == totalPauses > 0 /\ 10 * longPauses > 3 * totalPauses
      consistent == FracLess(calculateDigraphVariance(profile.digraphLatencies),
                             ConsistentDigraphVariance)
      confidence == (IF uniform THEN 3 ELSE 0) + (IF fast THEN 2 ELSE 0)
                    + (IF slow THEN 1 ELSE 0) + (IF pausing THEN 2 ELSE 0)
                    + (IF consistent THEN 2 ELSE 0)
      \* 0.1 + 0.2 is 0.30000000000000004 in IEEE-754 doubles, and 0.3 is 0.3
      above == confidence = 3 /\ ~uniform
  IN IF ~has THEN NoAnomalies
     ELSE [isSuspicious |-> confidence > 3 \/ above,
           anomalies |->
              (IF uniform THEN <<"Unusually uniform keystroke timing detected">> ELSE << >>)
              \o (IF fast THEN <<"Unusually fast typing speed detected">> ELSE << >>)
              \o (IF slow THEN <<"Unusually slow typing speed detected">> ELSE << >>)
              \o (IF pausing
                  THEN <<"Frequent long pauses detected (possible copy-paste)">> ELSE << >>)
              \o (IF consistent
                  THEN <<"Unusually consistent digraph timing detected">> ELSE << >>),
           confidence |-> Min2(confidence, 10)]

\* clearAnalyzer leaving the cached typing profile behind
clearAnalyzerKeepsProfile(ka, sessionId) ==
  [events |-> Del(ka.events, sessionId),
   digraphs |-> Del(ka.digraphs, sessionId),
   trigraphs |-> Del(ka.trigraphs, sessionId),
   profiles |-> ka.profiles]

clearAnalyzer(ka, sessionId) ==
  [events |-> Del(ka.events, sessionId),
   digraphs |-> Del(ka.digraphs, sessionId),
   trigraphs |-> Del(ka.trigraphs, sessionId),
   profiles |-> Del(ka.profiles, sessionId)]

(***************************************************************************)
(* CodeStylometryAnalyzer.  A code text is stood for by what the           *)
(* analyzer's regular expressions (for javascript, the language the scorer *)
(* analyses every sample as) and counters measure in it:                   *)
(*   lineCount, characterCount   code.split('\n').length, code.length      *)
(*   nonBlankLines, nonBlankChars  lines with something but blanks, their   *)
(*                               total length                              *)
(*   commentLines                lines matching the comment pattern        *)
(*   ternaries                   1 if /\?.*:/ matches, else 0              *)
(*   bareReturns                 matches of /return\s+[^;{]+;?$/gm         *)
(*   duplicateLines              a line longer than 10 occurs twice        *)
(*   controlFlow, maxNesting, functions, classes, imports                  *)
(*   identifiers, aiNames        words (\b\w+\b), those of the AI list     *)
(*   camel, snake, pascal        identifiers of each naming convention     *)
(*   unusual                     matches of the six perplexity patterns    *)
(* A probability is a double that is a sum of tenths: the number of tenths *)
(* and, in ulp, on which side of the double written k/10 the sum ended.    *)
(***************************************************************************)
EmptyCode ==
  [name |-> "", lineCount |-> 1, characterCount |-> 0, nonBlankLines |-> 0,
   nonBlankChars |-> 0, commentLines |-> 0, ternaries |-> 0, bareReturns |-> 0,
   duplicateLines |-> FALSE, controlFlow |-> 0, maxNesting |-> 0, functions |-> 0,
   classes |-> 0, imports |-> 0, identifiers |-> 0, aiNames |-> 0, camel |-> 0,
   snake |-> 0, pascal |-> 0, unusual |-> 0]

\* ten hand-written lines: comments, a repeated line, one guarded return
PlainCode ==
  [EmptyCode EXCEPT !.name = "plain", !.lineCount = 10, !.characterCount = 200,
     !.nonBlankLines = 8, !.nonBlankChars = 192, !.commentLines = 2,
     !.bareReturns = 1, !.duplicateLines = TRUE, !.controlFlow = 2,
     !.maxNesting = 2, !.functions = 1, !.identifiers = 6, !.snake = 4, !.camel = 2,
     !.unusual = 1]

\* twenty-five long lines without comment: a ternary, three bare returns
AiCode ==
  [EmptyCode EXCEPT !.name = "ai", !.lineCount = 25, !.characterCount = 2250,
     !.nonBlankLines = 25, !.nonBlankChars = 2250, !.ternaries = 1,
     !.bareReturns = 3, !.controlFlow = 3, !.maxNesting = 2, !.functions = 2,
     !.identifiers = 10, !.aiNames = 4, !.camel = 8, !.snake = 1, !.unusual = 4]

\* ten short lines without comment: a ternary and three bare returns
TerseCode ==
  [EmptyCode EXCEPT !.name = "terse", !.lineCount = 10, !.characterCount = 300,
     !.nonBlankLines = 10, !.nonBlankChars = 300, !.ternaries = 1,
     !.bareReturns = 3, !.controlFlow = 3, !.maxNesting = 2, !.functions = 3,
     !.identifiers = 10, !.snake = 6, !.camel = 2, !.unusual = 2]

CodeInputs == {AiCode}

detectTernaryOperators(text) == text.ternaries > 0
\* more than 2 direct returns
detectDirectReturns(text) == text.bareReturns > 2
detectDuplicateExpressions(text) == text.duplicateLines

calculateAverageLineLength(text) ==
  IF text.nonBlankLines = 0 THEN <<0, 1>> ELSE Frac(text.nonBlankChars, text.nonBlankLines)

calculateCommentRatio(text) ==
  IF text.lineCount = 0 THEN <<0, 1>> ELSE Frac(text.commentLines, text.lineCount)

calculateComplexityScore(text) == text.controlFlow + 2 * text.maxNesting + text.functions

\* aiNameCount > words.length * 0.3
hasAITypicalVariableNames(text) == 10 * text.aiNames > 3 * text.identifiers

\* the addends 0.2, 0.3, 0.1, 0.1, 0.2, 0.1 taken in this order: the choices
\* whose IEEE-754 sum ends one ulp above, or below, the double written k/10
\* (0.1 + 0.2 is 0.30000000000000004; all six give 0.9999999999999999)
SumsAbove ==
  {<<FALSE, FALSE, FALSE, FALSE, TRUE, TRUE>>, <<FALSE, FALSE, FALSE, TRUE, TRUE, FALSE>>,
   <<FALSE, FALSE, TRUE, FALSE, TRUE, FALSE>>, <<FALSE, FALSE, TRUE, TRUE, FALSE, TRUE>>,
   <<FALSE, TRUE, FALSE, TRUE, TRUE, FALSE>>, <<FALSE, TRUE, FALSE, TRUE, TRUE, TRUE>>,
   <<FALSE, TRUE, TRUE, FALSE, TRUE, FALSE>>, <<FALSE, TRUE, TRUE, FALSE, TRUE, TRUE>>,
   <<TRUE, FALSE, FALSE, FALSE, FALSE, TRUE>>, <<TRUE, FALSE, FALSE, TRUE, FALSE, FALSE>>,
   <<TRUE, FALSE, TRUE, FALSE, FALSE, FALSE>>, <<TRUE, FALSE, TRUE, TRUE, TRUE, FALSE>>,
   <<TRUE, FALSE, TRUE, TRUE, TRUE, TRUE>>}
SumsBelow ==
  {<<FALSE, TRUE, TRUE, TRUE, TRUE, TRUE>>, <<TRUE, TRUE, FALSE, FALSE, TRUE, TRUE>>,
   <<TRUE, TRUE, TRUE, TRUE, FALSE, TRUE>>, <<TRUE, TRUE, TRUE, TRUE, TRUE, FALSE>>,
   <<TRUE, TRUE, TRUE, TRUE, TRUE, TRUE>>}

\* d > k/10 for a probability d
MoreThanTenths(d, k) == d.tenths > k \/ (d.tenths = k /\ d.ulp > 0)

calculateAIGeneratedProbability(text) ==
  LET fired == <<detectTernaryOperators(text), detectDirectReturns(text),
                 ~detectDuplicateExpressions(text),
                 100 * calculateCommentRatio(text)[1] < 5 * calculateCommentRatio(text)[2],
                 hasAITypicalVariableNames(text),
                 FracMore(calculateAverageLineLength(text), 80)>>
      tenths == (IF fired[1] THEN 2 ELSE 0) + (IF fired[2] THEN 3 ELSE 0)
                + (IF fired[3] THEN 1 ELSE 0) + (IF fired[4] THEN 1 ELSE 0)
                + (IF fired[5] THEN 2 ELSE 0) + (IF fired[6] THEN 1 ELSE 0)
  IN [tenths |-> tenths,
      ulp |-> IF fired \in SumsAbove THEN 1 ELSE IF fired \in SumsBelow THEN -1 ELSE 0]

\* min(perplexity / lines.length, 1.0), 0.1 for each match
calculatePerplexityScore(text) ==
  IF text.nonBlankLines = 0 THEN <<0, 1>>
  ELSE IF text.unusual > 10 * text.nonBlankLines THEN <<1, 1>>
  ELSE Frac(text.unusual, 10 * text.nonBlankLines)

detectVariableNamingPattern(text) ==
  LET total == text.camel + text.snake + text.pascal
  IN IF total = 0 THEN "unknown"
     ELSE IF 2 * text.camel > total THEN "camelCase"
     ELSE IF 2 * text.snake > total THEN "snake_case"
     ELSE IF 2 * text.pascal > total THEN "PascalCase"
     ELSE "mixed"

analyzeStructuralPatterns(text) ==
  [functionCount |-> text.functions,
   classCount |-> text.classes,
   importCount |-> text.imports,
   variableNamingPattern |-> detectVariableNamingPattern(text)]

analyzeCode(text) ==
  [sessionId |-> "",
   lineCount |-> text.lineCount,
   characterCount |-> text.characterCount,
   hasTernaryOperators |-> detectTernaryOperators(text),
   hasDirectReturns |-> detectDirectReturns(text),
   hasDuplicateExpressions |-> detectDuplicateExpressions(text),
   averageLineLength |-> calculateAverageLineLength(text),
   commentRatio |-> calculateCommentRatio(text),
   complexityScore |-> calculateComplexityScore(text),
   aiGeneratedProbability |-> calculateAIGeneratedProbability(text),
   perplexityScore |-> calculatePerplexityScore(text),
   structuralPatterns |-> analyzeStructuralPatterns(text)]

\* confidence in tenths
detectCodeAnomalies(features) ==
  LET likelyAi == MoreThanTenths(features.aiGeneratedProbability, 7)
      chatty == features.hasTernaryOperators /\ features.hasDirectReturns
      clean == 100 * features.commentRatio[1] < 2 * features.commentRatio[2]
               /\ features.lineCount > 20
      simple == features.complexityScore < 2 /\ features.lineCount > 30
      camel == features.structuralPatterns.variableNamingPattern = "camelCase"
               /\ features.structuralPatterns.functionCount > 5
      confidence == (IF likelyAi THEN 4 ELSE 0) + (IF chatty THEN 3 ELSE 0)
                    + (IF clean THEN 2 ELSE 0) + (IF simple THEN 2 ELSE 0)
                    + (IF camel THEN 1 ELSE 0)
      \* 0.2 + 0.1 is 0.30000000000000004 in IEEE-754 doubles, and 0.3 is 0.3
      above == confidence = 3 /\ ~chatty
  IN [isSuspicious |-> confidence > 3 \/ above,
      anomalies |->
         (IF likelyAi THEN <<"High probability of AI-generated code">> ELSE << >>)
         \o (IF chatty
             THEN <<"Code exhibits ChatGPT-like patterns (ternary operators + direct returns)">>
             ELSE << >>)
         \o (IF clean THEN <<"Unusually clean code with minimal comments">> ELSE << >>)
         \o (IF simple THEN <<"Unusually simple code for its length">> ELSE << >>)
         \o (IF camel THEN <<"Consistent camelCase naming (AI-typical)">> ELSE << >>),
      confidence |-> Min2(confidence, 10)]

(***************************************************************************)
(* Behavioural patterns (FraudDetectionService.analyzeBehavioralPatterns)  *)
(***************************************************************************)
LongSession == 300000
RecentWindow == 30000
MinAppSwitches == 5
LargeBatch == 50
SuspiciousPatterns == {"linear_movement", "perfect_clicking", "no_human_delay"}

SetMin(S) == CHOOSE x \in S : \A y \in S : x <= y
SetMax(S) == CHOOSE x \in S : \A y \in S : x >= y

CountType(events, types) ==
  LET is(e) == e.type \in types IN Len(SelectSeq(events, is))

\* startMs and endMs are doubles.  The model writes them as whole numbers of
\* a unit of time, perMs units to the millisecond: 1 for times in whole
\* milliseconds, TenthsPerMs for the times of TimingChunks.
TenthsPerMs == 10

\* gap > avgGap * 3 when the gap is exactly three times the mean of three
\* gaps, that is when the sum of the gaps is the gap itself: the right-hand
\* side is the double nearest to 3 * d, d the double nearest to gap / 3.  That
\* is the gap again for every whole number of milliseconds below 2^52, and
\* can be the double below it for a gap with a fractional part.  These are the
\* pairs <<endMs, startMs>> of consecutive TimingChunks, in milliseconds, for
\* which it is: startMs - endMs > (startMs - endMs) / 3 * 3 in doubles.
RoundsBelowThird ==
  {<<Frac(573, TenthsPerMs), Frac(4664, TenthsPerMs)>>,
   <<Frac(1887, TenthsPerMs), Frac(5978, TenthsPerMs)>>,
   <<Frac(3692, TenthsPerMs), Frac(7783, TenthsPerMs)>>}

\* sorted is the array after chunks.sort(by startMs)
detectSuspiciousTiming(sorted, perMs) ==
  LET gaps == [i \in 1..(Len(sorted) - 1) |-> sorted[i + 1].startMs - sorted[i].endMs]
      n == Len(gaps)
      \* gap > avgGap * 3, with avgGap = sum / n
      isLong(i) ==
        \/ gaps[i] * n > 3 * SumSeq(gaps)
        \/ /\ gaps[i] * n = 3 * SumSeq(gaps) /\ n = 3
           /\ <<Frac(sorted[i].endMs, perMs), Frac(sorted[i + 1].startMs, perMs)>>
                \in RoundsBelowThird
      longGaps == Cardinality({i \in 1..n : isLong(i)})
  IN IF Len(sorted) < 2 THEN FALSE ELSE 10 * longGaps > 3 * n

detectKeystrokeAnomalies(screenEvents) ==
  LET large(e) == e.type = "KEYSTROKE_BATCH" /\ e.count > LargeBatch
  IN Len(SelectSeq(screenEvents, large)) > 0

detectMouseAnomalies(screenEvents) ==
  LET odd(e) == e.type = "MOUSE_ANOMALY" /\ e.pattern \in SuspiciousPatterns
  IN Len(SelectSeq(screenEvents, odd)) > 0

detectApplicationSwitching(screenEvents, nowMs) ==
  LET isSwitch(e) == e.type = "APPLICATION_SWITCH"
      recent(e) == e.type = "APPLICATION_SWITCH" /\ nowMs - e.t < RecentWindow
  IN /\ Len(SelectSeq(screenEvents, isSwitch)) >= MinAppSwitches
     /\ Len(SelectSeq(screenEvents, recent)) >= MinAppSwitches

\* analyzeBehavioralPatterns counting TAB_BLUR alone as a tab switch
analyzeBehavioralPatternsBlurOnly(chunks, screenEvents, compileEvents, nowMs) ==
  LET sorted == IF Len(chunks) < 2 THEN chunks ELSE SortByStartMs(chunks)
      starts == {c.startMs : c \in Range(chunks)} \cup {e.t : e \in Range(screenEvents)}
                \cup {e.t : e \in Range(compileEvents)}
      ends == {c.endMs : c \in Range(chunks)} \cup {e.t : e \in Range(screenEvents)}
              \cup {e.t : e \in Range(compileEvents)}
  IN [pasteBursts |-> CountType(screenEvents, {"PASTE"}),
      tabSwitches |-> CountType(screenEvents, {"TAB_BLUR"}),
      compileCount |-> Len(compileEvents),
      spanEmpty |-> starts = {},
      sessionDuration |-> IF starts = {} THEN 0 ELSE SetMax(ends) - SetMin(starts),
      suspiciousTiming |-> detectSuspiciousTiming(sorted, 1),
      keystrokeAnomalies |-> detectKeystrokeAnomalies(screenEvents),
      mouseAnomalies |-> detectMouseAnomalies(screenEvents),
      applicationSwitching |-> detectApplicationSwitching(screenEvents, nowMs),
      chunks |-> sorted]

\* analyzeBehavioralPatterns taking sessionStart - sessionEnd for the duration
\* of a session without events: Infinity, stood for by a duration beyond
\* LongSession
analyzeBehavioralPatternsEndless(chunks, screenEvents, compileEvents, nowMs) ==
  LET sorted == IF Len(chunks) < 2 THEN chunks ELSE SortByStartMs(chunks)
      starts == {c.startMs : c \in Range(chunks)} \cup {e.t : e \in Range(screenEvents)}
                \cup {e.t : e \in Range(compileEvents)}
      ends == {c.endMs : c \in Range(chunks)} \cup {e.t : e \in Range(screenEvents)}
              \cup {e.t : e \in Range(compileEvents)}
  IN [pasteBursts |-> CountType(screenEvents, {"PASTE"}),
      tabSwitches |-> CountType(screenEvents, {"WINDOW_SWITCH", "TAB_BLUR"}),
      compileCount |-> Len(compileEvents),
      spanEmpty |-> FALSE,
      sessionDuration |-> IF starts = {} THEN LongSession + 1
                          ELSE SetMax(ends) - SetMin(starts),
      suspiciousTiming |-> detectSuspiciousTiming(sorted, 1),
      keystrokeAnomalies |-> detectKeystrokeAnomalies(screenEvents),
      mouseAnomalies |-> detectMouseAnomalies(screenEvents),
      applicationSwitching |-> detectApplicationSwitching(screenEvents, nowMs),
      chunks |-> sorted]

\* sessionDuration is Math.max(...) - Math.min(...): -Infinity when all three
\* logs are empty, told by spanEmpty
analyzeBehavioralPatterns(chunks, screenEvents, compileEvents, nowMs) ==
  LET sorted == IF Len(chunks) < 2 THEN chunks ELSE SortByStartMs(chunks)
      starts == {c.startMs : c \in Range(chunks)} \cup {e.t : e \in Range(screenEvents)}
                \cup {e.t : e \in Range(compileEvents)}
      ends == {c.endMs : c \in Range(chunks)} \cup {e.t : e \in Range(screenEvents)}
              \cup {e.t : e \in Range(compileEvents)}
  IN [pasteBursts |-> CountType(screenEvents, {"PASTE"}),
      tabSwitches |-> CountType(screenEvents, {"WINDOW_SWITCH", "TAB_BLUR"}),
      compileCount |-> Len(compileEvents),
      spanEmpty |-> starts = {},
      sessionDuration |-> IF starts = {} THEN 0 ELSE SetMax(ends) - SetMin(starts),
      suspiciousTiming |-> detectSuspiciousTiming(sorted, 1),
      keystrokeAnomalies |-> detectKeystrokeAnomalies(screenEvents),
      mouseAnomalies |-> detectMouseAnomalies(screenEvents),
      applicationSwitching |-> detectApplicationSwitching(screenEvents, nowMs),
      chunks |-> sorted]

(***************************************************************************)
(* Fusion scoring (FraudDetectionService.calculateEnhancedFraudScore).     *)
(* Scores and weights in tenths of a point.                                *)
(***************************************************************************)
KeystrokeWeight == 30
KeystrokeReasonWeight == 10
CodeWeight == 25
CodeReasonWeight == 8
MinPasteBursts == 2
PasteWeight == 6
PasteCap == 15
MinTabSwitches == 3
TabWeight == 3
TabCap == 10
MaxLowCompiles == 1
LowCompileWeight == 10
TimingWeight == 5
MouseWeight == 3
AppSwitchWeight == 2
MaxScore == 100
HighScore == 70
MediumScore == 40
\* n points in tenths of a point
Points(n) == n * 10

Reason(code, text, n, weight) ==
  [code |-> code, message |-> <<text, n>>, weight |-> weight]

\* LevelOf with the medium threshold set at 50 points
LevelOfMediumLate(clamped) ==
  IF clamped >= Points(HighScore) THEN "high"
  ELSE IF clamped >= Points(50) THEN "medium"
  ELSE "low"

LevelOf(clamped) ==
  IF clamped >= Points(HighScore) THEN "high"
  ELSE IF clamped >= Points(MediumScore) THEN "medium"
  ELSE "low"

Clamp(rawScore) == Max2(0, Min2(Points(MaxScore), rawScore))

\* chunks[0]?.sessionId || 'unknown'
FirstSessionId(chunks) == IF Len(chunks) > 0 THEN chunks[1].sessionId ELSE UnknownId

\* the reasons and raw score of one rule that fires, else nothing
\* a rule whose weight is added whether or not it fires
RuleAlwaysAdds(fires, reasons, weight) ==
  IF fires THEN [reasons |-> reasons, raw |-> weight] ELSE [reasons |-> << >>, raw |-> weight]

\* a rule that lists its reasons twice
RuleListsTwice(fires, reasons, weight) ==
  IF fires THEN [reasons |-> reasons \o reasons, raw |-> weight]
  ELSE [reasons |-> << >>, raw |-> 0]

Rule(fires, reasons, weight) ==
  IF fires THEN [reasons |-> reasons, raw |-> weight] ELSE [reasons |-> << >>, raw |-> 0]

\* lines 415-497: the eight rules in the order in which the code applies them
Rules(typingAnomalies, codeAnomalies, b) ==
  << Rule(typingAnomalies.isSuspicious,
          [i \in 1..Len(typingAnomalies.anomalies) |->
             Reason("KEYSTROKE_ANOMALY", typingAnomalies.anomalies[i], 0,
                    typingAnomalies.confidence * KeystrokeReasonWeight)],
          typingAnomalies.confidence * KeystrokeWeight),
     Rule(codeAnomalies.isSuspicious,
          [i \in 1..Len(codeAnomalies.anomalies) |->
             Reason("CODE_STYLOMETRY_ANOMALY", codeAnomalies.anomalies[i], 0,
                    codeAnomalies.confidence * CodeReasonWeight)],
          codeAnomalies.confidence * CodeWeight),
     Rule(b.pasteBursts >= MinPasteBursts,
          <<Reason("PASTE_BURST", "Multiple large paste actions", b.pasteBursts,
                   Points(Min2(b.pasteBursts * PasteWeight, PasteCap)))>>,
          Points(Min2(b.pasteBursts * PasteWeight, PasteCap))),
     Rule(b.tabSwitches >= MinTabSwitches,
          <<Reason("TAB_SWITCHING", "Frequent tab/window switching", b.tabSwitches,
                   Points(Min2(b.tabSwitches * TabWeight, TabCap)))>>,
          Points(Min2(b.tabSwitches * TabWeight, TabCap))),
     Rule(b.compileCount <= MaxLowCompiles /\ ~b.spanEmpty
            /\ b.sessionDuration > LongSession,
          <<Reason("LOW_COMPILE", "Low compile/run activity for extended session", 0,
                   Points(LowCompileWeight))>>,
          Points(LowCompileWeight)),
     Rule(b.suspiciousTiming,
          <<Reason("SUSPICIOUS_TIMING", "Unusual timing patterns detected", 0,
                   Points(TimingWeight))>>,
          Points(TimingWeight)),
     Rule(b.mouseAnomalies,
          <<Reason("MOUSE_ANOMALIES", "Unusual mouse activity patterns detected", 0,
                   Points(MouseWeight))>>,
          Points(MouseWeight)),
     Rule(b.applicationSwitching,
          <<Reason("APPLICATION_SWITCHING", "Frequent application switching detected",
                   0, Points(AppSwitchWeight))>>,
          Points(AppSwitchWeight)) >>

\* lines 499-509: the FraudScore of a clamped score.  Its src field records
\* what the scoring read (it is not part of FraudScore).
Snapshot(sessionId, clamped, reasons, nowMs, src) ==
  [sessionId |-> sessionId, score |-> clamped, level |-> LevelOf(clamped),
   reasons |-> reasons, at |-> nowMs, src |-> src]

\* Fuse listing the stylometry reasons before the keystroke reasons
FuseCodeFirst(sessionId, rules, nowMs, src) ==
  Snapshot(sessionId,
           Clamp(SumSeq([i \in 1..Len(rules) |-> rules[i].raw])),
           rules[2].reasons \o rules[1].reasons \o rules[3].reasons
             \o rules[4].reasons \o rules[5].reasons \o rules[6].reasons
             \o rules[7].reasons \o rules[8].reasons,
           nowMs, src)

\* rawScore and reasons accumulated over the rules, then clamped
Fuse(sessionId, rules, nowMs, src) ==
  Snapshot(sessionId,
           Clamp(SumSeq([i \in 1..Len(rules) |-> rules[i].raw])),
           rules[1].reasons \o rules[2].reasons \o rules[3].reasons
             \o rules[4].reasons \o rules[5].reasons \o rules[6].reasons
             \o rules[7].reasons \o rules[8].reasons,
           nowMs, src)

\* keystrokeAnalyzer.detectTypingAnomalies(typingId) on the analyzer ka1
TypingVerdict(ka1, typingId) ==
  detectTypingAnomalies(Has(ka1.profiles, typingId),
                        IF Has(ka1.profiles, typingId) THEN ka1.profiles[typingId]
                        ELSE createEmptyProfile(typingId))

\* lines 412-509 for the analyses: ka1 is the analyzer after the profile of
\* typingId was generated, b the behavioural analysis
FuseAnalyses(chunks, screenEvents, compileEvents, codeSample, ka, nowMs, typingId, ka1, b) ==
  [score |->
     Fuse(FirstSessionId(b.chunks),
          Rules(TypingVerdict(ka1, typingId),
                detectCodeAnomalies(analyzeCode(codeSample)), b),
          nowMs,
          [chunks |-> chunks, screenEvents |-> screenEvents,
           compileEvents |-> compileEvents, codeSample |-> codeSample,
           typingId |-> typingId, keystrokes |-> Get(ka.events, typingId),
           typing |-> TypingVerdict(ka1, typingId),
           code |-> detectCodeAnomalies(analyzeCode(codeSample)),
           behaviour |-> b]),
   ka |-> ka1,
   chunks |-> b.chunks]

\* result: the snapshot, the analyzer after the profile was generated, and the
\* chunk array after detectSuspiciousTiming sorted it
calculateEnhancedFraudScore(chunks, screenEvents, compileEvents, keystrokeEvents, codeSample, ka, nowMs) ==
  FuseAnalyses(chunks, screenEvents, compileEvents, codeSample, ka, nowMs,
               FirstSessionId(chunks),
               generateTypingProfile(ka, FirstSessionId(chunks)),
               analyzeBehavioralPatterns(chunks, screenEvents, compileEvents, nowMs))

(***************************************************************************)
(* Inputs of the operations.                                               *)
(***************************************************************************)
TickMs == 40000

StartInputs ==
  {[candidateId |-> "cand", companyId |-> "comp", role |-> "dev",
    consent |-> [audio |-> TRUE, video |-> TRUE, screen |-> TRUE, telemetry |-> TRUE]]}

\* the second chunk starts before the first and overlaps it; seq is not in
\* the order of startMs
ChunkInputs ==
  {[seq |-> 2, startMs |-> 100, endMs |-> 200],
   [seq |-> 1, startMs |-> 0, endMs |-> 150]}

\* meta.count and meta.pattern; 0 and "" stand for an absent field
ScreenInputs == {[t |-> 400000, type |-> "PASTE", count |-> 0, pattern |-> ""]}

CompileInputs == {[t |-> 1000, action |-> "compile", ok |-> TRUE]}

KeystrokeInputs ==
  {[t |-> 80, key |-> "a", action |-> "up"],
   [t |-> 200, key |-> "b", action |-> "down"]}

WithSession(sessionId, data) ==
  [f \in (DOMAIN data) \cup {"sessionId"} |->
     IF f = "sessionId" THEN sessionId ELSE data[f]]

(***************************************************************************)
(* State.  The seven maps of FraudDetectionService, the analyzer's four    *)
(* maps (ka), the clock, the queue of ingestion calls that have appended   *)
(* their snapshot and not yet returned (pending), and history variables:   *)
(* ingested (per session, the events ingested since it was started or      *)
(* cleared), lastOp (the last step of an operation: a call with its        *)
(* result, the synchronous part of an ingestion, or its return) and nOps   *)
(* (operations so far).                                                    *)
(***************************************************************************)
VARIABLES sessions, fraudSignals, transcriptChunks, screenEvents, compileEvents,
          keystrokeEvents, codeSamples, ka, now, pending, ingested, lastOp, nOps

store == <<sessions, fraudSignals, transcriptChunks, screenEvents, compileEvents,
           keystrokeEvents, codeSamples, ka>>
vars == <<sessions, fraudSignals, transcriptChunks, screenEvents, compileEvents,
          keystrokeEvents, codeSamples, ka, now, pending, ingested, lastOp, nOps>>

Op(op, sessionId, arg, result) ==
  [op |-> op, sessionId |-> sessionId, arg |-> arg, result |-> result]

Init ==
  /\ sessions = EmptyMap
  /\ fraudSignals = EmptyMap
  /\ transcriptChunks = EmptyMap
  /\ screenEvents = EmptyMap
  /\ compileEvents = EmptyMap
  /\ keystrokeEvents = EmptyMap
  /\ codeSamples = EmptyMap
  /\ ka = [events |-> EmptyMap, digraphs |-> EmptyMap, trigraphs |-> EmptyMap,
           profiles |-> EmptyMap]
  /\ now = 0
  /\ pending = << >>
  /\ ingested = [s \in Ids |-> << >>]
  /\ lastOp = Op("init", "", << >>, << >>)
  /\ nOps = 0

\* every operation but the return of a pending call counts towards MaxOps
Counted == nOps < MaxOps /\ nOps' = nOps + 1

\* the clock of Date.now() and new Date()
Tick ==
  /\ Counted
  /\ now' = now + TickMs
  /\ UNCHANGED <<store, pending, ingested, lastOp>>

\* no map holds anything under the id: what a newly generated id looks like
Unused(sessionId) ==
  /\ ~Has(sessions, sessionId) /\ ~Has(fraudSignals, sessionId)
  /\ ~Has(transcriptChunks, sessionId) /\ ~Has(screenEvents, sessionId)
  /\ ~Has(compileEvents, sessionId) /\ ~Has(keystrokeEvents, sessionId)
  /\ ~Has(codeSamples, sessionId) /\ ~Has(ka.events, sessionId)
  /\ ~Has(ka.digraphs, sessionId) /\ ~Has(ka.trigraphs, sessionId)
  /\ ~Has(ka.profiles, sessionId)

\* startInterview storing the new session as ended
startInterviewEnded(sessionId, data) ==
  /\ Counted
  /\ sessions' = Put(sessions, sessionId,
                     [id |-> sessionId, candidateId |-> data.candidateId,
                      companyId |-> data.companyId, role |-> data.role,
                      status |-> "ended", startedAt |-> now, endedAt |-> <<now>>,
                      consent |-> data.consent])
  /\ fraudSignals' = Put(fraudSignals, sessionId, << >>)
  /\ transcriptChunks' = Put(transcriptChunks, sessionId, << >>)
  /\ screenEvents' = Put(screenEvents, sessionId, << >>)
  /\ compileEvents' = Put(compileEvents, sessionId, << >>)
  /\ ingested' = [ingested EXCEPT ![sessionId] = << >>]
  /\ lastOp' = Op("startInterview", sessionId, data, [sessionId |-> sessionId])
  /\ UNCHANGED <<keystrokeEvents, codeSamples, ka, now, pending>>

\* sessionId is the id the call generates from Date.now() and eight hex digits
\* of randomUUID(); the code does not look it up in any map
startInterview(sessionId, data) ==
  /\ Counted
  /\ sessions' = Put(sessions, sessionId,
                     [id |-> sessionId, candidateId |-> data.candidateId,
                      companyId |-> data.companyId, role |-> data.role,
                      status |-> "live", startedAt |-> now, endedAt |-> << >>,
                      consent |-> data.consent])
  /\ fraudSignals' = Put(fraudSignals, sessionId, << >>)
  /\ transcriptChunks' = Put(transcriptChunks, sessionId, << >>)
  /\ screenEvents' = Put(screenEvents, sessionId, << >>)
  /\ compileEvents' = Put(compileEvents, sessionId, << >>)
  /\ ingested' = [ingested EXCEPT ![sessionId] = << >>]
  /\ lastOp' = Op("startInterview", sessionId, data, [sessionId |-> sessionId])
  /\ UNCHANGED <<keystrokeEvents, codeSamples, ka, now, pending>>

\* throw new Error('Session not found')
NotFound == [error |-> "Session not found"]

\* endInterview reopening a session that is ended
endInterviewToggles(sessionId) ==
  /\ Counted
  /\ IF ~Has(sessions, sessionId)
     THEN /\ lastOp' = Op("endInterview", sessionId, << >>, NotFound)
          /\ UNCHANGED sessions
     ELSE /\ sessions' = Put(sessions, sessionId,
                             IF sessions[sessionId].status = "ended"
                             THEN [sessions[sessionId] EXCEPT !.status = "live",
                                                              !.endedAt = << >>]
                             ELSE [sessions[sessionId] EXCEPT !.status = "ended",
                                                              !.endedAt = <<now>>])
          /\ lastOp' = Op("endInterview", sessionId, << >>, [success |-> TRUE])
  /\ UNCHANGED <<fraudSignals, transcriptChunks, screenEvents, compileEvents,
                 keystrokeEvents, codeSamples, ka, now, pending, ingested>>

\* endInterview creating the record it does not find
endInterviewCreates(sessionId) ==
  /\ Counted
  /\ sessions' = Put(sessions, sessionId,
                     [(IF Has(sessions, sessionId) THEN sessions[sessionId]
                       ELSE [id |-> sessionId, candidateId |-> "", companyId |-> "",
                             role |-> "", status |-> "live", startedAt |-> now,
                             endedAt |-> << >>, consent |-> << >>])
                      EXCEPT !.status = "ended", !.endedAt = <<now>>])
  /\ lastOp' = Op("endInterview", sessionId, << >>, [success |-> TRUE])
  /\ UNCHANGED <<fraudSignals, transcriptChunks, screenEvents, compileEvents,
                 keystrokeEvents, codeSamples, ka, now, pending, ingested>>

endInterview(sessionId) ==
  /\ Counted
  /\ IF ~Has(sessions, sessionId)
     THEN /\ lastOp' = Op("endInterview", sessionId, << >>, NotFound)
          /\ UNCHANGED sessions
     ELSE /\ sessions' = Put(sessions, sessionId,
                             [sessions[sessionId] EXCEPT !.status = "ended",
                                                         !.endedAt = <<now>>])
          /\ lastOp' = Op("endInterview", sessionId, << >>, [success |-> TRUE])
  /\ UNCHANGED <<fraudSignals, transcriptChunks, screenEvents, compileEvents,
                 keystrokeEvents, codeSamples, ka, now, pending, ingested>>

\* analyzeFraud on the maps as the ingestion has left them: the snapshot is
\* pushed, the chunk array is left sorted, the analyzer keeps the profile
\* PushSignal storing the new score over the latest one
PushSignalOverwrite(signals, score) ==
  IF signals = << >> THEN <<score>> ELSE [signals EXCEPT ![Len(signals)] = score]

\* signals.push(score)
PushSignal(signals, score) == Append(signals, score)

\* the scoring of analyzeFraud on the given maps at the given time
Rescore(sessionId, chunksMap, screenMap, compileMap, keysMap, codeMap, ka0, nowMs) ==
  calculateEnhancedFraudScore(
    Get(chunksMap, sessionId), Get(screenMap, sessionId),
    Get(compileMap, sessionId), Get(keysMap, sessionId),
    IF Has(codeMap, sessionId) THEN codeMap[sessionId] ELSE EmptyCode,
    ka0, nowMs)

\* lines 166-168, and what the scoring did to the arrays it was given
StoreScore(sessionId, chunksMap, screenMap, compileMap, keysMap, codeMap, r) ==
  /\ fraudSignals' = Put(fraudSignals, sessionId,
                         PushSignal(Get(fraudSignals, sessionId), r.score))
  /\ transcriptChunks' = IF Has(chunksMap, sessionId)
                         THEN Put(chunksMap, sessionId, r.chunks) ELSE chunksMap
  /\ screenEvents' = screenMap
  /\ compileEvents' = compileMap
  /\ keystrokeEvents' = keysMap
  /\ codeSamples' = codeMap
  /\ ka' = r.ka

analyzeFraud(sessionId, chunksMap, screenMap, compileMap, keysMap, codeMap, ka0) ==
  StoreScore(sessionId, chunksMap, screenMap, compileMap, keysMap, codeMap,
             Rescore(sessionId, chunksMap, screenMap, compileMap, keysMap, codeMap,
                     ka0, now))

\* what every ingestion does besides its own append: it is counted, recorded,
\* and stays pending until the awaited analyzeFraud promise resumes it
Call(kind, sessionId, event) == [kind |-> kind, sessionId |-> sessionId, event |-> event]

Ingest(kind, sessionId, event) ==
  /\ Counted
  /\ pending' = Append(pending, Call(kind, sessionId, event))
  /\ ingested' = [ingested EXCEPT
                    ![sessionId] = Append(@, [kind |-> kind, event |-> event])]
  /\ lastOp' = Op("ingest", sessionId, Call(kind, sessionId, event), "pending")
  /\ UNCHANGED <<sessions, now>>

ingestTranscript(sessionId, data) ==
  LET chunk == WithSession(sessionId, data)
  IN /\ Ingest("transcript", sessionId, chunk)
     /\ analyzeFraud(sessionId,
                     Put(transcriptChunks, sessionId,
                         Append(Get(transcriptChunks, sessionId), chunk)),
                     screenEvents, compileEvents, keystrokeEvents, codeSamples, ka)

\* ingestScreenEvent dropping the event of a session that has no record
ingestScreenEventStrict(sessionId, data) ==
  LET event == WithSession(sessionId, data)
  IN /\ Ingest("screen", sessionId, event)
     /\ IF Has(sessions, sessionId)
        THEN analyzeFraud(sessionId, transcriptChunks,
                          Put(screenEvents, sessionId,
                              Append(Get(screenEvents, sessionId), event)),
                          compileEvents, keystrokeEvents, codeSamples, ka)
        ELSE UNCHANGED <<fraudSignals, transcriptChunks, screenEvents, compileEvents,
                         keystrokeEvents, codeSamples, ka>>

ingestScreenEvent(sessionId, data) ==
  LET event == WithSession(sessionId, data)
  IN /\ Ingest("screen", sessionId, event)
     /\ analyzeFraud(sessionId, transcriptChunks,
                     Put(screenEvents, sessionId,
                         Append(Get(screenEvents, sessionId), event)),
                     compileEvents, keystrokeEvents, codeSamples, ka)

\* ingestCompileEvent skipping an event that is already in the log
ingestCompileEventOnce(sessionId, data) ==
  LET event == WithSession(sessionId, data)
  IN /\ Ingest("compile", sessionId, event)
     /\ IF event \in Range(Get(compileEvents, sessionId))
        THEN UNCHANGED <<fraudSignals, transcriptChunks, screenEvents, compileEvents,
                         keystrokeEvents, codeSamples, ka>>
        ELSE analyzeFraud(sessionId, transcriptChunks, screenEvents,
                          Put(compileEvents, sessionId,
                              Append(Get(compileEvents, sessionId), event)),
                          keystrokeEvents, codeSamples, ka)

ingestCompileEvent(sessionId, data) ==
  LET event == WithSession(sessionId, data)
  IN /\ Ingest("compile", sessionId, event)
     /\ analyzeFraud(sessionId, transcriptChunks, screenEvents,
                     Put(compileEvents, sessionId,
                         Append(Get(compileEvents, sessionId), event)),
                     keystrokeEvents, codeSamples, ka)

ingestKeystrokeEvent(sessionId, data) ==
  LET event == WithSession(sessionId, data)
  IN /\ Ingest("keystroke", sessionId, event)
     /\ analyzeFraud(sessionId, transcriptChunks, screenEvents, compileEvents,
                     Put(keystrokeEvents, sessionId,
                         Append(Get(keystrokeEvents, sessionId), event)),
                     codeSamples, recordKeystroke(ka, sessionId, event))

\* what analyzeCode does besides storing the sample: as Ingest, and lastOp
\* keeps the language that was passed
IngestCode(sessionId, code, language) ==
  /\ Counted
  /\ pending' = Append(pending, Call("code", sessionId, code))
  /\ ingested' = [ingested EXCEPT
                    ![sessionId] = Append(@, [kind |-> "code", event |-> code])]
  /\ lastOp' = [op |-> "ingest", sessionId |-> sessionId,
                arg |-> Call("code", sessionId, code), result |-> "pending",
                language |-> language]
  /\ UNCHANGED <<sessions, now>>

\* analyzeCode keeping the sample the session already has
analyzeCodeSampleKeepsFirst(sessionId, code, language) ==
  /\ IngestCode(sessionId, code, language)
  /\ analyzeFraud(sessionId, transcriptChunks, screenEvents, compileEvents,
                  keystrokeEvents,
                  IF Has(codeSamples, sessionId) THEN codeSamples
                  ELSE Put(codeSamples, sessionId, code), ka)

\* analyzeCode storing nothing but javascript
analyzeCodeSampleJavascriptOnly(sessionId, code, language) ==
  /\ IngestCode(sessionId, code, language)
  /\ analyzeFraud(sessionId, transcriptChunks, screenEvents, compileEvents,
                  keystrokeEvents,
                  Put(codeSamples, sessionId,
                      IF language = "javascript" THEN code ELSE EmptyCode), ka)

\* FraudDetectionService.analyzeCode; the language argument is not used
analyzeCodeSample(sessionId, code, language) ==
  /\ IngestCode(sessionId, code, language)
  /\ analyzeFraud(sessionId, transcriptChunks, screenEvents, compileEvents,
                  keystrokeEvents, Put(codeSamples, sessionId, code), ka)

\* an ingestion call resumes after its await and returns { success: true };
\* the continuations run in the order in which the promises were resolved
Ack ==
  /\ pending # << >>
  /\ pending' = Tail(pending)
  /\ lastOp' = Op("ack", Head(pending).sessionId, Head(pending), [success |-> TRUE])
  /\ UNCHANGED <<store, now, ingested, nOps>>

DefaultScore(sessionId, nowMs) ==
  [sessionId |-> sessionId, score |-> 0, level |-> "low", reasons |-> << >>,
   at |-> nowMs]

\* a FraudScore as callers see it: without the model's src record
Visible(snapshot) ==
  [sessionId |-> snapshot.sessionId, score |-> snapshot.score,
   level |-> snapshot.level, reasons |-> snapshot.reasons, at |-> snapshot.at]

LatestScore(signalsMap, sessionId, nowMs) ==
  LET signals == Get(signalsMap, sessionId)
  IN IF Len(signals) = 0 THEN DefaultScore(sessionId, nowMs)
     ELSE Visible(Last(signals))

getLatestScore(sessionId) ==
  /\ Counted
  /\ lastOp' = Op("getLatestScore", sessionId, << >>,
                  LatestScore(fraudSignals, sessionId, now))
  /\ UNCHANGED <<store, now, pending, ingested>>

\* session: the record, or none (a sequence of at most one record)
Report(sessionId) ==
  [session |-> IF Has(sessions, sessionId) THEN <<sessions[sessionId]>> ELSE << >>,
   scores |-> Get(fraudSignals, sessionId),
   chunks |-> Get(transcriptChunks, sessionId),
   events |-> Get(screenEvents, sessionId),
   compiles |-> Get(compileEvents, sessionId)]

\* getReport returning the latest snapshot only
getReportLatest(sessionId) ==
  /\ Counted
  /\ lastOp' = Op("getReport", sessionId, << >>,
                  [Report(sessionId) EXCEPT
                     !.scores = IF Len(@) = 0 THEN @ ELSE <<Last(@)>>])
  /\ UNCHANGED <<store, now, pending, ingested>>

getReport(sessionId) ==
  /\ Counted
  /\ lastOp' = Op("getReport", sessionId, << >>, Report(sessionId))
  /\ UNCHANGED <<store, now, pending, ingested>>

getSession(sessionId) ==
  /\ Counted
  /\ lastOp' = Op("getSession", sessionId, << >>,
                  IF Has(sessions, sessionId) THEN <<sessions[sessionId]>> ELSE << >>)
  /\ UNCHANGED <<store, now, pending, ingested>>

getAllSessions ==
  /\ Counted
  /\ lastOp' = Op("getAllSessions", "", << >>, Range(sessions))
  /\ UNCHANGED <<store, now, pending, ingested>>

\* clearSession without codeSamples.delete
clearSessionKeepsCode(sessionId) ==
  /\ Counted
  /\ sessions' = Del(sessions, sessionId)
  /\ fraudSignals' = Del(fraudSignals, sessionId)
  /\ transcriptChunks' = Del(transcriptChunks, sessionId)
  /\ screenEvents' = Del(screenEvents, sessionId)
  /\ compileEvents' = Del(compileEvents, sessionId)
  /\ keystrokeEvents' = Del(keystrokeEvents, sessionId)
  /\ ka' = clearAnalyzer(ka, sessionId)
  /\ ingested' = [ingested EXCEPT ![sessionId] = << >>]
  /\ lastOp' = Op("clearSession", sessionId, << >>, << >>)
  /\ UNCHANGED <<codeSamples, now, pending>>

clearSession(sessionId) ==
  /\ Counted
  /\ sessions' = Del(sessions, sessionId)
  /\ fraudSignals' = Del(fraudSignals, sessionId)
  /\ transcriptChunks' = Del(transcriptChunks, sessionId)
  /\ screenEvents' = Del(screenEvents, sessionId)
  /\ compileEvents' = Del(compileEvents, sessionId)
  /\ keystrokeEvents' = Del(keystrokeEvents, sessionId)
  /\ codeSamples' = Del(codeSamples, sessionId)
  /\ ka' = clearAnalyzer(ka, sessionId)
  /\ ingested' = [ingested EXCEPT ![sessionId] = << >>]
  /\ lastOp' = Op("clearSession", sessionId, << >>, << >>)
  /\ UNCHANGED <<now, pending>>

\* the generated id is new: it repeats only if a call in the same millisecond
\* draws the same eight hex digits
StartInterview ==
  \E s \in GenIds, d \in StartInputs : Unused(s) /\ startInterview(s, d)
EndInterview == \E s \in Ids : endInterview(s)
IngestTranscript == \E s \in IngestIds, d \in ChunkInputs : ingestTranscript(s, d)
IngestScreenEvent == \E s \in IngestIds, d \in ScreenInputs : ingestScreenEvent(s, d)
IngestCompileEvent == \E s \in IngestIds, d \in CompileInputs : ingestCompileEvent(s, d)
IngestKeystrokeEvent == \E s \in IngestIds, d \in KeystrokeInputs : ingestKeystrokeEvent(s, d)
AnalyzeCode == \E s \in IngestIds, c \in CodeInputs : analyzeCodeSample(s, c, "javascript")
GetLatestScore == \E s \in Ids : getLatestScore(s)
ClearSession == \E s \in Ids : clearSession(s)

Next ==
  \/ Tick
  \/ StartInterview
  \/ EndInterview
  \/ IngestTranscript
  \/ IngestScreenEvent
  \/ IngestCompileEvent
  \/ IngestKeystrokeEvent
  \/ AnalyzeCode
  \/ Ack
  \/ GetLatestScore
  \/ ClearSession

Spec == Init /\ [][Next]_vars

\* the generated id is any id: randomUUID() may repeat itself
StartInterviewAny == \E s \in GenIds, d \in StartInputs : startInterview(s, d)

NextIds ==
  \/ Tick
  \/ StartInterviewAny
  \/ EndInterview
  \/ IngestTranscript
  \/ IngestScreenEvent
  \/ IngestCompileEvent
  \/ IngestKeystrokeEvent
  \/ AnalyzeCode
  \/ Ack
  \/ GetLatestScore
  \/ ClearSession

\* the service without the assumption that generated ids are new
SpecIds == Init /\ [][NextIds]_vars

\* the service right after its first startInterview call has returned "s1"
InitLive ==
  \E data \in StartInputs :
    /\ sessions = Put(EmptyMap, "s1",
                      [id |-> "s1", candidateId |-> data.candidateId,
                       companyId |-> data.companyId, role |-> data.role,
                       status |-> "live", startedAt |-> 0, endedAt |-> << >>,
                       consent |-> data.consent])
    /\ fraudSignals = Put(EmptyMap, "s1", << >>)
    /\ transcriptChunks = Put(EmptyMap, "s1", << >>)
    /\ screenEvents = Put(EmptyMap, "s1", << >>)
    /\ compileEvents = Put(EmptyMap, "s1", << >>)
    /\ keystrokeEvents = EmptyMap
    /\ codeSamples = EmptyMap
    /\ ka = [events |-> EmptyMap, digraphs |-> EmptyMap, trigraphs |-> EmptyMap,
             profiles |-> EmptyMap]
    /\ now = 0
    /\ pending = << >>
    /\ ingested = [s \in Ids |-> << >>]
    /\ lastOp = Op("startInterview", "s1", data, [sessionId |-> "s1"])
    /\ nOps = 0

\* the operations that follow the first startInterview
SpecLive == InitLive /\ [][Next]_vars

(***************************************************************************)
(* A session with screen events only: seven PASTE or WINDOW_SWITCH events  *)
(* spread over 400 000 ms, six of them ingested, the seventh to come.      *)
(***************************************************************************)
ScenarioTimes == <<0, 50000, 100000, 200000, 300000, 350000, 400000>>
ScenarioTypes == {"PASTE", "WINDOW_SWITCH"}

ScenarioEvent(i, type) ==
  WithSession("s1", [t |-> ScenarioTimes[i], type |-> type, count |-> 0, pattern |-> ""])

\* the history six ingestScreenEvent calls leave for the log
ScenarioHistory(log) ==
  [i \in 1..Len(log) |->
     Rescore("s1", Put(EmptyMap, "s1", << >>), Put(EmptyMap, "s1", SubSeq(log, 1, i)),
             Put(EmptyMap, "s1", << >>), EmptyMap, EmptyMap,
             [events |-> EmptyMap, digraphs |-> EmptyMap, trigraphs |-> EmptyMap,
              profiles |-> EmptyMap], 0).score]

InitScenario ==
  \E data \in StartInputs,
     types \in [1..(Len(ScenarioTimes) - 1) -> ScenarioTypes] :
    LET log == [i \in 1..(Len(ScenarioTimes) - 1) |-> ScenarioEvent(i, types[i])]
    IN /\ sessions = Put(EmptyMap, "s1",
                         [id |-> "s1", candidateId |-> data.candidateId,
                          companyId |-> data.companyId, role |-> data.role,
                          status |-> "live", startedAt |-> 0, endedAt |-> << >>,
                          consent |-> data.consent])
       /\ fraudSignals = Put(EmptyMap, "s1", ScenarioHistory(log))
       /\ transcriptChunks = Put(EmptyMap, "s1", << >>)
       /\ screenEvents = Put(EmptyMap, "s1", log)
       /\ compileEvents = Put(EmptyMap, "s1", << >>)
       /\ keystrokeEvents = EmptyMap
       /\ codeSamples = EmptyMap
       /\ ka = [events |-> EmptyMap, digraphs |-> EmptyMap, trigraphs |-> EmptyMap,
                profiles |-> EmptyMap]
       /\ now = 0
       /\ pending = << >>
       /\ ingested = [s \in Ids |->
                        IF s = "s1"
                        THEN [i \in 1..Len(log) |-> [kind |-> "screen", event |-> log[i]]]
                        ELSE << >>]
       /\ lastOp = Op("ack", "s1", Call("screen", "s1", log[Len(log)]),
                      [success |-> TRUE])
       /\ nOps = 0

\* the seventh event arrives
IngestSeventh ==
  \E type \in ScenarioTypes :
    /\ Len(Get(screenEvents, "s1")) < Len(ScenarioTimes)
    /\ ingestScreenEvent("s1", [t |-> ScenarioTimes[Len(ScenarioTimes)], type |-> type,
                                count |-> 0, pattern |-> ""])

NextScenario ==
  \/ IngestSeventh
  \/ Ack
  \/ GetLatestScore
  \/ Tick

SpecScenario == InitScenario /\ [][NextScenario]_vars

(***************************************************************************)
(* Typing on one session: key presses at uneven intervals besides the      *)
(* release and press of KeystrokeInputs, and a code sample.  The session   *)
(* is the one the scorer reads the typing profile of when there is no      *)
(* transcript.                                                             *)
(***************************************************************************)
TypingInputs ==
  KeystrokeInputs \cup {[t |-> 0, key |-> "a", action |-> "down"],
                        [t |-> 120, key |-> "a", action |-> "down"]}

IngestTyping == \E d \in TypingInputs : ingestKeystrokeEvent(UnknownId, d)
AnalyzeTypedCode == \E c \in CodeInputs : analyzeCodeSample(UnknownId, c, "javascript")
ReadTyping == getLatestScore(UnknownId)
ClearTyping == clearSession(UnknownId)

NextTyping ==
  \/ IngestTyping
  \/ AnalyzeTypedCode
  \/ Ack
  \/ ReadTyping
  \/ ClearTyping

SpecTyping == Init /\ [][NextTyping]_vars

(***************************************************************************)
(* KeystrokeAnalyzer on its own: the public methods called in any order on *)
(* one session.  The events have release-to-press latencies just inside    *)
(* and just outside the band, arrive with timestamps that go back, and    *)
(* press a key whose name is not a single character.  ingested keeps the   *)
(* recorded events in arrival order; lastOp keeps the value returned.      *)
(***************************************************************************)
MaxCalls == 6
AnalyzerId == "s1"

AnalyzerInputs ==
  {[t |-> 0, key |-> "a", action |-> "up"],
   [t |-> 9, key |-> "Enter", action |-> "down"],
   [t |-> 10, key |-> "b", action |-> "down"],
   [t |-> 2000, key |-> "b", action |-> "down"],
   [t |-> 2001, key |-> "Enter", action |-> "down"]}

Called == nOps < MaxCalls /\ nOps' = nOps + 1

service == <<sessions, fraudSignals, transcriptChunks, screenEvents, compileEvents,
             keystrokeEvents, codeSamples, now, pending>>

RecordKeystroke ==
  \E d \in AnalyzerInputs :
    LET event == WithSession(AnalyzerId, d)
    IN /\ Called
       /\ ka' = recordKeystroke(ka, AnalyzerId, event)
       /\ ingested' = [ingested EXCEPT
                         ![AnalyzerId] = Append(@, [kind |-> "keystroke", event |-> event])]
       /\ lastOp' = Op("recordKeystroke", AnalyzerId, event, << >>)
       /\ UNCHANGED service

GenerateTypingProfile ==
  /\ Called
  /\ ka' = generateTypingProfile(ka, AnalyzerId)
  /\ lastOp' = Op("generateTypingProfile", AnalyzerId, << >>,
                  ProfileOf(AnalyzerId, Get(ka.events, AnalyzerId),
                            Get(ka.digraphs, AnalyzerId), Get(ka.trigraphs, AnalyzerId)))
  /\ UNCHANGED <<service, ingested>>

DetectTypingAnomalies ==
  /\ Called
  /\ lastOp' = Op("detectTypingAnomalies", AnalyzerId, << >>, TypingVerdict(ka, AnalyzerId))
  /\ UNCHANGED <<service, ka, ingested>>

ClearAnalyzerSession ==
  /\ Called
  /\ ka' = clearAnalyzer(ka, AnalyzerId)
  /\ ingested' = [ingested EXCEPT ![AnalyzerId] = << >>]
  /\ lastOp' = Op("clearSession", AnalyzerId, << >>, << >>)
  /\ UNCHANGED service

NextAnalyzer ==
  \/ RecordKeystroke
  \/ GenerateTypingProfile
  \/ DetectTypingAnomalies
  \/ ClearAnalyzerSession

SpecAnalyzer == Init /\ [][NextAnalyzer]_vars

(***************************************************************************)
(* Even typing: ten keys, each pressed 120 ms after the one before and     *)
(* held for 80 ms, recorded in order; then the profile is generated and    *)
(* judged.  The keys are any of "a" and "b".                               *)
(***************************************************************************)
EvenKeys == {"a", "b"}
\* the i-th event of the run, for the key chosen
EvenEvent(i, key) ==
  [t |-> 120 * ((i - 1) \div 2) + (IF i % 2 = 1 THEN 0 ELSE 80),
   key |-> key,
   action |-> IF i % 2 = 1 THEN "down" ELSE "up"]
EvenPairs == 1..10
EvenLength == 2 * Cardinality(EvenPairs)

RecordEven ==
  LET i == Len(ingested[AnalyzerId]) + 1
  IN /\ i <= EvenLength
     /\ \E key \in EvenKeys :
          LET event == WithSession(AnalyzerId, EvenEvent(i, key))
          IN /\ i % 2 = 0 => key = Last(Get(ka.events, AnalyzerId)).key
             /\ ka' = recordKeystroke(ka, AnalyzerId, event)
             /\ ingested' = [ingested EXCEPT
                               ![AnalyzerId] = Append(@, [kind |-> "keystroke", event |-> event])]
             /\ lastOp' = Op("recordKeystroke", AnalyzerId, event, << >>)
             /\ nOps' = nOps + 1
             /\ UNCHANGED service

GenerateEven ==
  /\ Len(ingested[AnalyzerId]) = EvenLength
  /\ lastOp.op = "recordKeystroke"
  /\ ka' = generateTypingProfile(ka, AnalyzerId)
  /\ lastOp' = Op("generateTypingProfile", AnalyzerId, << >>,
                  ProfileOf(AnalyzerId, Get(ka.events, AnalyzerId),
                            Get(ka.digraphs, AnalyzerId), Get(ka.trigraphs, AnalyzerId)))
  /\ nOps' = nOps + 1
  /\ UNCHANGED <<service, ingested>>

DetectEven ==
  /\ lastOp.op = "generateTypingProfile"
  /\ lastOp' = Op("detectTypingAnomalies", AnalyzerId, << >>, TypingVerdict(ka, AnalyzerId))
  /\ nOps' = nOps + 1
  /\ UNCHANGED <<service, ka, ingested>>

NextEven ==
  \/ RecordEven
  \/ GenerateEven
  \/ DetectEven

SpecEven == Init /\ [][NextEven]_vars

(***************************************************************************)
(* CodeStylometryAnalyzer on its own: analyzeCode on a text, then          *)
(* detectCodeAnomalies on the features.  The texts are all combinations of *)
(* the measurements that decide a rule: with and without a ternary, two    *)
(* or three direct returns, a duplicate line, no or one comment line in    *)
(* 10, 25 or 35 lines, with or without control flow, no or six functions,  *)
(* AI-typical names, lines of 30 or 90 characters, camelCase or snake_case.*)
(* lastOp keeps the argument and the value returned.                       *)
(***************************************************************************)
CodeTexts ==
  {[EmptyCode EXCEPT
      !.name = "text", !.lineCount = lines, !.nonBlankLines = lines,
      !.characterCount = lines * (width + 1) - 1, !.nonBlankChars = lines * width,
      !.commentLines = comments, !.ternaries = ternaries, !.bareReturns = returns,
      !.duplicateLines = dup, !.controlFlow = control,
      !.maxNesting = (IF control + functions > 0 THEN 2 ELSE 0),
      !.functions = functions, !.identifiers = 10, !.aiNames = aiNames,
      !.camel = camel, !.snake = 9 - camel, !.unusual = ternaries + returns] :
     lines \in {10, 25, 35}, width \in {30, 90}, comments \in {0, 1},
     ternaries \in {0, 1}, returns \in {2, 3}, dup \in BOOLEAN, control \in {0, 3},
     functions \in {0, 6}, aiNames \in {0, 4}, camel \in {1, 8}}

InitCode ==
  /\ \E text \in CodeTexts \cup {EmptyCode} : lastOp = Op("text", "", text, << >>)
  /\ sessions = EmptyMap
  /\ fraudSignals = EmptyMap
  /\ transcriptChunks = EmptyMap
  /\ screenEvents = EmptyMap
  /\ compileEvents = EmptyMap
  /\ keystrokeEvents = EmptyMap
  /\ codeSamples = EmptyMap
  /\ ka = [events |-> EmptyMap, digraphs |-> EmptyMap, trigraphs |-> EmptyMap,
           profiles |-> EmptyMap]
  /\ now = 0
  /\ pending = << >>
  /\ ingested = [s \in Ids |-> << >>]
  /\ nOps = 0

AnalyzeText ==
  /\ lastOp.op = "text"
  /\ lastOp' = Op("analyzeCode", "", lastOp.arg, analyzeCode(lastOp.arg))
  /\ nOps' = nOps + 1
  /\ UNCHANGED <<store, now, pending, ingested>>

DetectCodeAnomalies ==
  /\ lastOp.op = "analyzeCode"
  /\ lastOp' = Op("detectCodeAnomalies", "", lastOp.result, detectCodeAnomalies(lastOp.result))
  /\ nOps' = nOps + 1
  /\ UNCHANGED <<store, now, pending, ingested>>

NextCode ==
  \/ AnalyzeText
  \/ DetectCodeAnomalies

SpecCode == InitCode /\ [][NextCode]_vars

(***************************************************************************)
(* Application switching: a session with four APPLICATION_SWITCH events    *)
(* ingested at time 0, a fifth screen event to come, the clock, and        *)
(* compile events, which rescore the session with its screen log as it     *)
(* is.  The timestamps are the client's: one tick of the clock later they  *)
(* are 30 000 ms old, a millisecond less, or still ahead.                   *)
(***************************************************************************)
SwitchTimes == {10000, 10001, 50000}
SwitchTypes == {"APPLICATION_SWITCH", "WINDOW_SWITCH"}
SwitchEvent(t, type) == WithSession("s1", [t |-> t, type |-> type, count |-> 0, pattern |-> ""])

InitSwitches ==
  \E data \in StartInputs, times \in [1..(MinAppSwitches - 1) -> SwitchTimes] :
    LET log == [i \in 1..(MinAppSwitches - 1) |-> SwitchEvent(times[i], "APPLICATION_SWITCH")]
    IN /\ sessions = Put(EmptyMap, "s1",
                         [id |-> "s1", candidateId |-> data.candidateId,
                          companyId |-> data.companyId, role |-> data.role,
                          status |-> "live", startedAt |-> 0, endedAt |-> << >>,
                          consent |-> data.consent])
       /\ fraudSignals = Put(EmptyMap, "s1", ScenarioHistory(log))
       /\ transcriptChunks = Put(EmptyMap, "s1", << >>)
       /\ screenEvents = Put(EmptyMap, "s1", log)
       /\ compileEvents = Put(EmptyMap, "s1", << >>)
       /\ keystrokeEvents = EmptyMap
       /\ codeSamples = EmptyMap
       /\ ka = [events |-> EmptyMap, digraphs |-> EmptyMap, trigraphs |-> EmptyMap,
                profiles |-> EmptyMap]
       /\ now = 0
       /\ pending = << >>
       /\ ingested = [s \in Ids |->
                        IF s = "s1"
                        THEN [i \in 1..Len(log) |-> [kind |-> "screen", event |-> log[i]]]
                        ELSE << >>]
       /\ lastOp = Op("ack", "s1", Call("screen", "s1", log[Len(log)]),
                      [success |-> TRUE])
       /\ nOps = 0

IngestFifth ==
  \E t \in SwitchTimes, type \in SwitchTypes :
    /\ Len(Get(screenEvents, "s1")) < MinAppSwitches
    /\ ingestScreenEvent("s1", [t |-> t, type |-> type, count |-> 0, pattern |-> ""])

RescoreSwitches == \E d \in CompileInputs : ingestCompileEvent("s1", d)

NextSwitches ==
  \/ IngestFifth
  \/ RescoreSwitches
  \/ Ack
  \/ Tick

SpecSwitches == InitSwitches /\ [][NextSwitches]_vars

(***************************************************************************)
(* Client timestamps on either side of zero: a started session receives    *)
(* screen and compile events whose t the client chose.                     *)
(***************************************************************************)
StampedScreens ==
  {[t |-> -1, type |-> "PASTE", count |-> 0, pattern |-> ""],
   [t |-> 2000, type |-> "PASTE", count |-> 0, pattern |-> ""]}
StampedCompiles ==
  {[t |-> -400000, action |-> "compile", ok |-> TRUE],
   [t |-> 1000, action |-> "compile", ok |-> TRUE]}

InitStamped ==
  \E data \in StartInputs :
    /\ sessions = Put(EmptyMap, "s1",
                      [id |-> "s1", candidateId |-> data.candidateId,
                       companyId |-> data.companyId, role |-> data.role,
                       status |-> "live", startedAt |-> 0, endedAt |-> << >>,
                       consent |-> data.consent])
    /\ fraudSignals = Put(EmptyMap, "s1", << >>)
    /\ transcriptChunks = Put(EmptyMap, "s1", << >>)
    /\ screenEvents = Put(EmptyMap, "s1", << >>)
    /\ compileEvents = Put(EmptyMap, "s1", << >>)
    /\ keystrokeEvents = EmptyMap
    /\ codeSamples = EmptyMap
    /\ ka = [events |-> EmptyMap, digraphs |-> EmptyMap, trigraphs |-> EmptyMap,
             profiles |-> EmptyMap]
    /\ now = 0
    /\ pending = << >>
    /\ ingested = [s \in Ids |-> << >>]
    /\ lastOp = Op("startInterview", "s1", data, [sessionId |-> "s1"])
    /\ nOps = 0

IngestStampedScreen == \E d \in StampedScreens : ingestScreenEvent("s1", d)
IngestStampedCompile == \E d \in StampedCompiles : ingestCompileEvent("s1", d)

NextStamped ==
  \/ IngestStampedScreen
  \/ IngestStampedCompile
  \/ Ack
  \/ Tick

SpecStamped == InitStamped /\ [][NextStamped]_vars

(***************************************************************************)
(* Repeated ingestion: a started session receives events of the four       *)
(* kinds, each of which may be one it has received before.                 *)
(***************************************************************************)
IngestChunk == \E d \in ChunkInputs : ingestTranscript("s1", d)
IngestScreen == \E d \in ScreenInputs : ingestScreenEvent("s1", d)
IngestCompile == \E d \in CompileInputs : ingestCompileEvent("s1", d)
IngestKey == \E d \in KeystrokeInputs : ingestKeystrokeEvent("s1", d)

NextTwice ==
  \/ IngestChunk
  \/ IngestScreen
  \/ IngestCompile
  \/ IngestKey
  \/ Ack

SpecTwice == InitStamped /\ [][NextTwice]_vars

(***************************************************************************)
(* Reads: the four read operations between the ingestions of a started     *)
(* session; they are asked about that session and about others.            *)
(***************************************************************************)
GetReport == \E s \in Ids : getReport(s)
GetSession == \E s \in Ids : getSession(s)
GetAllSessions == getAllSessions

NextReads ==
  \/ IngestChunk
  \/ IngestScreen
  \/ IngestCompile
  \/ IngestKey
  \/ Ack
  \/ GetLatestScore
  \/ GetReport
  \/ GetSession
  \/ GetAllSessions

SpecReads == InitStamped /\ [][NextReads]_vars

(***************************************************************************)
(* Around the thresholds of the fusion rules: the session the scorer reads *)
(* the typing profile of has three PASTE or WINDOW_SWITCH events, ingested *)
(* one by one, and receives more of them, key presses and a code sample.   *)
(***************************************************************************)
GateEvent(type) == WithSession(UnknownId, [t |-> 0, type |-> type, count |-> 0, pattern |-> ""])

InitGates ==
  \E types \in [1..MinTabSwitches -> ScenarioTypes] :
    LET n == MinTabSwitches
        log == [i \in 1..n |-> GateEvent(types[i])]
    IN /\ sessions = EmptyMap
       /\ fraudSignals = Put(EmptyMap, UnknownId, ScenarioHistory(log))
       /\ transcriptChunks = EmptyMap
       /\ screenEvents = Put(EmptyMap, UnknownId, log)
       /\ compileEvents = EmptyMap
       /\ keystrokeEvents = EmptyMap
       /\ codeSamples = EmptyMap
       /\ ka = [events |-> EmptyMap, digraphs |-> EmptyMap, trigraphs |-> EmptyMap,
                profiles |-> EmptyMap]
       /\ now = 0
       /\ pending = << >>
       /\ ingested = [s \in Ids |->
                        IF s = UnknownId
                        THEN [i \in 1..n |-> [kind |-> "screen", event |-> log[i]]]
                        ELSE << >>]
       /\ lastOp = Op("ack", UnknownId, Call("screen", UnknownId, log[n]),
                      [success |-> TRUE])
       /\ nOps = 0

IngestGateScreen ==
  \E type \in ScenarioTypes :
    ingestScreenEvent(UnknownId, [t |-> 0, type |-> type, count |-> 0, pattern |-> ""])

\* three presses, the third two seconds in: typing that is neither fast nor
\* slow
GateKeys ==
  {[t |-> 0, key |-> "a", action |-> "down"],
   [t |-> 120, key |-> "a", action |-> "down"],
   [t |-> 2000, key |-> "a", action |-> "down"]}
GateCodes == {AiCode, TerseCode}

IngestGateKey == \E d \in GateKeys : ingestKeystrokeEvent(UnknownId, d)
AnalyzeGateCode == \E c \in GateCodes : analyzeCodeSample(UnknownId, c, "javascript")

NextGates ==
  \/ IngestGateScreen
  \/ IngestGateKey
  \/ AnalyzeGateCode
  \/ Ack

SpecGates == InitGates /\ [][NextGates]_vars

(***************************************************************************)
(* detectSuspiciousTiming on its own, on four chunks that arrive in the    *)
(* order of their startMs.  The chunk times have a fractional part and are *)
(* written in tenths of a millisecond: the first chunk starts at 0, the    *)
(* chunks last 57.3 (or 117.0), 71.7, 240.2 and 1000 ms, and each starts   *)
(* right at the end of the one before, 409.1 or 300 ms after it, or 50 ms  *)
(* before it.  lastOp keeps the argument and the value returned.           *)
(***************************************************************************)
TimingGaps == {0, 4091, 3000, -500}
TimingLengths == {<<573, 717, 2402, 10000>>, <<1170, 717, 2402, 10000>>}

RECURSIVE TimingChunksOf(_, _)
TimingChunksOf(lengths, gaps) ==
  IF Len(lengths) = 1
  THEN <<[sessionId |-> "s1", seq |-> 1, startMs |-> 0, endMs |-> lengths[1]]>>
  ELSE LET before == TimingChunksOf(Front(lengths), Front(gaps))
           start == Last(before).endMs + Last(gaps)
       IN Append(before, [sessionId |-> "s1", seq |-> Len(lengths), startMs |-> start,
                          endMs |-> start + Last(lengths)])

TimingChunks ==
  {TimingChunksOf(lengths, gaps) : lengths \in TimingLengths, gaps \in [1..3 -> TimingGaps]}

InitTiming ==
  /\ \E chunks \in TimingChunks : lastOp = Op("chunks", "s1", chunks, << >>)
  /\ sessions = EmptyMap
  /\ fraudSignals = EmptyMap
  /\ transcriptChunks = EmptyMap
  /\ screenEvents = EmptyMap
  /\ compileEvents = EmptyMap
  /\ keystrokeEvents = EmptyMap
  /\ codeSamples = EmptyMap
  /\ ka = [events |-> EmptyMap, digraphs |-> EmptyMap, trigraphs |-> EmptyMap,
           profiles |-> EmptyMap]
  /\ now = 0
  /\ pending = << >>
  /\ ingested = [s \in Ids |-> << >>]
  /\ nOps = 0

DetectSuspiciousTiming ==
  /\ lastOp.op = "chunks"
  /\ lastOp' = Op("detectSuspiciousTiming", "s1", SortByStartMs(lastOp.arg),
                  detectSuspiciousTiming(SortByStartMs(lastOp.arg), TenthsPerMs))
  /\ nOps' = nOps + 1
  /\ UNCHANGED <<store, now, pending, ingested>>

NextTiming == DetectSuspiciousTiming

SpecTiming == InitTiming /\ [][NextTiming]_vars

(***************************************************************************)
(* Code samples: a started session is sent samples, each with a language,  *)
(* between screen and compile events that rescore it.                      *)
(***************************************************************************)
SampleInputs == {AiCode, PlainCode, TerseCode}
Languages == {"javascript", "python"}

SubmitCodeSample ==
  \E c \in SampleInputs, language \in Languages : analyzeCodeSample("s1", c, language)

NextSamples ==
  \/ SubmitCodeSample
  \/ IngestScreen
  \/ IngestCompile
  \/ Ack

SpecSamples == InitStamped /\ [][NextSamples]_vars

(***************************************************************************)
(* The behavioural rules together: a session with four APPLICATION_SWITCH  *)
(* events and two WINDOW_SWITCH events at time 0 and a PASTE event 400 000 *)
(* ms later receives one more screen event of any of the kinds the rules   *)
(* count, overlapping transcript chunks, and a code sample; the clock      *)
(* moves.                                                                  *)
(***************************************************************************)
FusionLog ==
  [i \in 1..7 |->
     WithSession("s1",
       [t |-> IF i = 7 THEN LongSession + 100000 ELSE 0,
        type |-> IF i <= 4 THEN "APPLICATION_SWITCH"
                 ELSE IF i <= 6 THEN "WINDOW_SWITCH" ELSE "PASTE",
        count |-> 0, pattern |-> ""])]

FusionEvents ==
  {[t |-> 0, type |-> "PASTE", count |-> 0, pattern |-> ""],
   [t |-> 0, type |-> "WINDOW_SWITCH", count |-> 0, pattern |-> ""],
   [t |-> 0, type |-> "APPLICATION_SWITCH", count |-> 0, pattern |-> ""],
   [t |-> 0, type |-> "MOUSE_ANOMALY", count |-> 0, pattern |-> "linear_movement"]}

InitFusion ==
  \E data \in StartInputs :
    /\ sessions = Put(EmptyMap, "s1",
                      [id |-> "s1", candidateId |-> data.candidateId,
                       companyId |-> data.companyId, role |-> data.role,
                       status |-> "live", startedAt |-> 0, endedAt |-> << >>,
                       consent |-> data.consent])
    /\ fraudSignals = Put(EmptyMap, "s1", ScenarioHistory(FusionLog))
    /\ transcriptChunks = Put(EmptyMap, "s1", << >>)
    /\ screenEvents = Put(EmptyMap, "s1", FusionLog)
    /\ compileEvents = Put(EmptyMap, "s1", << >>)
    /\ keystrokeEvents = EmptyMap
    /\ codeSamples = EmptyMap
    /\ ka = [events |-> EmptyMap, digraphs |-> EmptyMap, trigraphs |-> EmptyMap,
             profiles |-> EmptyMap]
    /\ now = 0
    /\ pending = << >>
    /\ ingested = [s \in Ids |->
                     IF s = "s1"
                     THEN [i \in 1..Len(FusionLog) |->
                             [kind |-> "screen", event |-> FusionLog[i]]]
                     ELSE << >>]
    /\ lastOp = Op("ack", "s1", Call("screen", "s1", Last(FusionLog)),
                   [success |-> TRUE])
    /\ nOps = 0

IngestFusionEvent == \E d \in FusionEvents : ingestScreenEvent("s1", d)
SubmitAiCode == analyzeCodeSample("s1", AiCode, "javascript")

NextFusion ==
  \/ IngestFusionEvent
  \/ IngestChunk
  \/ SubmitAiCode
  \/ Ack
  \/ Tick

SpecFusion == InitFusion /\ [][NextFusion]_vars

(***************************************************************************)
(* Properties.                                                             *)
(***************************************************************************)
AllIds == Ids \cup {NeverId}
History(sessionId) == Get(fraudSignals, sessionId)
Snapshots == {<<s, i>> \in AllIds \X (1..MaxOps) : i <= Len(History(s))}

CountIn(x, seq) == Cardinality({i \in DOMAIN seq : seq[i] = x})
SameBag(s1, s2) ==
  /\ Len(s1) = Len(s2)
  /\ \A x \in Range(s1) \cup Range(s2) : CountIn(x, s1) = CountIn(x, s2)

OfKind(events, kind) ==
  LET is(e) == e.kind = kind
      sel == SelectSeq(events, is)
  IN [i \in 1..Len(sel) |-> sel[i].event]

\* the maps as they are, and as they are with nothing stored for the session
Stored ==
  [chunks |-> transcriptChunks, screen |-> screenEvents, compile |-> compileEvents,
   keys |-> keystrokeEvents, code |-> codeSamples, ka |-> ka]

NeverStored(sessionId) ==
  [chunks |-> Del(transcriptChunks, sessionId),
   screen |-> Del(screenEvents, sessionId),
   compile |-> Del(compileEvents, sessionId),
   keys |-> Del(keystrokeEvents, sessionId),
   code |-> Del(codeSamples, sessionId),
   ka |-> [events |-> Del(ka.events, sessionId),
           digraphs |-> Del(ka.digraphs, sessionId),
           trigraphs |-> Del(ka.trigraphs, sessionId),
           profiles |-> Del(ka.profiles, sessionId)]]

\* the snapshot that ingesting data of the kind for the session appends when
\* the maps are st
ScoreAfterIn(st, kind, sessionId, data) ==
  LET event == IF kind = "code" THEN data ELSE WithSession(sessionId, data)
      add(m) == Put(m, sessionId, Append(Get(m, sessionId), event))
  IN Rescore(sessionId,
             IF kind = "transcript" THEN add(st.chunks) ELSE st.chunks,
             IF kind = "screen" THEN add(st.screen) ELSE st.screen,
             IF kind = "compile" THEN add(st.compile) ELSE st.compile,
             IF kind = "keystroke" THEN add(st.keys) ELSE st.keys,
             IF kind = "code" THEN Put(st.code, sessionId, data) ELSE st.code,
             IF kind = "keystroke" THEN recordKeystroke(st.ka, sessionId, event)
             ELSE st.ka,
             now).score

ScoreAfter(kind, sessionId, data) == ScoreAfterIn(Stored, kind, sessionId, data)

Ingestions ==
  ({"transcript"} \X ChunkInputs) \cup ({"screen"} \X ScreenInputs)
  \cup ({"compile"} \X CompileInputs) \cup ({"keystroke"} \X KeystrokeInputs)
  \cup ({"code"} \X CodeInputs)

\* a score within [0, 100] with the level its thresholds give
ScoreInRangeWithLevel(f) ==
  /\ f.score >= 0 /\ f.score <= Points(100)
  /\ f.level \in {"low", "medium", "high"}
  /\ f.level = "high" <=> f.score >= Points(70)
  /\ f.level = "medium" <=> (f.score >= Points(40) /\ f.score < Points(70))
  /\ f.level = "low" <=> f.score < Points(40)

\* C1: every stored snapshot, and what getLatestScore returns for any id (the
\* default when there is no snapshot), has a score within [0, 100] and the
\* level high iff score >= 70, medium iff 40 <= score < 70, low iff score < 40.
C1_ScoreRangeAndLevel ==
  /\ \A p \in Snapshots : ScoreInRangeWithLevel(History(p[1])[p[2]])
  /\ \A s \in AllIds : ScoreInRangeWithLevel(LatestScore(fraudSignals, s, now))

\* a medium snapshot next to a low one, and an id answered by the default
C1_Witness ==
  /\ \E p \in Snapshots : History(p[1])[p[2]].level = "medium"
  /\ \E p \in Snapshots : History(p[1])[p[2]].level = "low"
  /\ \E s \in Ids : Len(History(s)) = 0

\* one snapshot per ingestion since the start or clear; the last one is read
C2_Length ==
  \A s \in Ids :
    /\ Len(History(s)) = Len(ingested[s])
    /\ Len(History(s)) > 0 =>
         LatestScore(fraudSignals, s, now) = Visible(Last(History(s)))

\* a history stays, grows by one at its end, or is emptied
C2_Step ==
  \A s \in Ids :
    \/ /\ ingested'[s] = ingested[s]
       /\ Get(fraudSignals', s) = History(s)
    \/ /\ Len(ingested'[s]) = Len(ingested[s]) + 1
       /\ Len(Get(fraudSignals', s)) = Len(History(s)) + 1
       /\ SubSeq(Get(fraudSignals', s), 1, Len(History(s))) = History(s)
    \/ /\ ingested'[s] = << >>
       /\ Get(fraudSignals', s) = << >>

\* C2: a session's history only grows by one snapshot per ingestion on it,
\* earlier snapshots staying in place, so its length is the number of
\* ingestions since the session was started or cleared, and getLatestScore
\* returns its last element.
C2_AppendOnly == [](C2_Length) /\ [][C2_Step]_vars

\* a history of two snapshots, read back
C2_Witness ==
  \E s \in Ids :
    /\ Len(History(s)) >= 2
    /\ lastOp.op = "getLatestScore" /\ lastOp.sessionId = s
    /\ lastOp.result = Visible(Last(History(s)))

\* whether the scoring that made the snapshot read the ingested event
ReadBy(src, kind, event) ==
  CASE kind = "transcript" -> event \in Range(src.chunks)
    [] kind = "screen" -> event \in Range(src.screenEvents)
    [] kind = "compile" -> event \in Range(src.compileEvents)
    [] kind = "keystroke" -> event \in Range(src.keystrokes)
    [] kind = "code" -> event = src.codeSample

\* the ingestions of the session that a later code sample has not replaced
Effective(events) ==
  LET keep(i) == events[i].kind # "code"
                 \/ \A j \in (i + 1)..Len(events) : events[j].kind # "code"
      idx == SelectSeq([i \in 1..Len(events) |-> i], keep)
  IN [j \in 1..Len(idx) |-> events[idx[j]]]

\* C3: once an ingestion on a session has returned, the latest snapshot of
\* the session (until the session is cleared) was computed from inputs that
\* include the ingested event.
C3_ReadYourWrite ==
  \A s \in Ids :
    (lastOp.op = "ack" /\ lastOp.sessionId = s
       /\ [kind |-> lastOp.arg.kind, event |-> lastOp.arg.event]
            \in Range(Effective(ingested[s])))
    => /\ Len(History(s)) > 0
       /\ ReadBy(Last(History(s)).src, lastOp.arg.kind, lastOp.arg.event)

\* C4: two getLatestScore calls on a session with nothing but the passing of
\* time between them return the same value in every field.
C4_RepeatableRead ==
  [][(lastOp.op = "getLatestScore" /\ lastOp'.op = "getLatestScore"
        /\ lastOp'.sessionId = lastOp.sessionId)
     => lastOp'.result = lastOp.result]_vars

\* C5: the typing profile and verdict of every snapshot of a session come
\* from that session's own keystroke log.
C5_OwnTypingProfile ==
  \A p \in Snapshots : History(p[1])[p[2]].src.typingId = p[1]

\* C6: every snapshot in the history of session s carries sessionId = s.
C6_SnapshotSessionId ==
  \A p \in Snapshots : History(p[1])[p[2]].sessionId = p[1]

\* what the service and the analyzer hold for one session
ViewOf(sessionId) ==
  <<IF Has(sessions, sessionId) THEN <<sessions[sessionId]>> ELSE << >>,
    Has(fraudSignals, sessionId), History(sessionId),
    Has(transcriptChunks, sessionId), Get(transcriptChunks, sessionId),
    Has(screenEvents, sessionId), Get(screenEvents, sessionId),
    Has(compileEvents, sessionId), Get(compileEvents, sessionId),
    Has(keystrokeEvents, sessionId), Get(keystrokeEvents, sessionId),
    IF Has(codeSamples, sessionId) THEN <<codeSamples[sessionId]>> ELSE << >>,
    Has(ka.events, sessionId), Get(ka.events, sessionId),
    Has(ka.digraphs, sessionId), Get(ka.digraphs, sessionId),
    Has(ka.trigraphs, sessionId), Get(ka.trigraphs, sessionId),
    IF Has(ka.profiles, sessionId) THEN <<ka.profiles[sessionId]>> ELSE << >> >>

\* the score and reasons each possible next ingestion on the session would
\* get when the maps are st
NextScores(st, sessionId) ==
  [g \in Ingestions |->
     LET f == ScoreAfterIn(st, g[1], sessionId, g[2]) IN <<f.score, f.reasons>>]

\* what is stored for one session has no part in another session's scores
C7_Independent ==
  \A a \in Ids, b \in Ids :
    a # b => NextScores(Stored, b) = NextScores(NeverStored(a), b)

\* an operation on one session changes nothing held for another
C7_Step ==
  \A a \in Ids, b \in Ids :
    (a # b /\ lastOp' # lastOp /\ lastOp'.sessionId = a
       /\ lastOp'.op \in {"ingest", "endInterview", "clearSession"})
    => ViewOf(b)' = ViewOf(b)

\* C7: an ingestion, end or clear on session A leaves what is held for any
\* other session B unchanged, and the score and reasons of the snapshot B's
\* next ingestion computes are those it computes when nothing of A is stored,
\* as in a run without the operations on A.
C7_NonInterference == [](C7_Independent) /\ [][C7_Step]_vars

\* C8: the i-th snapshot of a session's history is computed from exactly the
\* first i events ingested on the session (a code sample counting until the
\* next one replaces it).
C8_SnapshotOfPrefix ==
  \A p \in Snapshots :
    LET s == p[1]
        src == History(s)[p[2]].src
        prefix == Effective(SubSeq(ingested[s], 1, p[2]))
        code == OfKind(prefix, "code")
    IN /\ SameBag(src.chunks, OfKind(prefix, "transcript"))
       /\ SameBag(src.screenEvents, OfKind(prefix, "screen"))
       /\ SameBag(src.compileEvents, OfKind(prefix, "compile"))
       /\ SameBag(src.keystrokes, OfKind(prefix, "keystroke"))
       /\ src.codeSample = IF code = << >> THEN EmptyCode ELSE code[1]

\* the step removes the session's entry from the map
Removed(m, mNext, sessionId) == Has(m, sessionId) /\ ~Has(mNext, sessionId)

\* C9: the deletions of clearSession come in one step: a step that removes a
\* session's entry from any one of the service's or the analyzer's maps
\* leaves no entry of the session in any of them.
C9_ClearInOneStep ==
  [][\A s \in Ids :
       (\/ Removed(sessions, sessions', s)
        \/ Removed(fraudSignals, fraudSignals', s)
        \/ Removed(transcriptChunks, transcriptChunks', s)
        \/ Removed(screenEvents, screenEvents', s)
        \/ Removed(compileEvents, compileEvents', s)
        \/ Removed(keystrokeEvents, keystrokeEvents', s)
        \/ Removed(codeSamples, codeSamples', s)
        \/ Removed(ka.events, ka'.events, s)
        \/ Removed(ka.digraphs, ka'.digraphs, s)
        \/ Removed(ka.trigraphs, ka'.trigraphs, s)
        \/ Removed(ka.profiles, ka'.profiles, s))
       => Unused(s)']_vars

\* a session cleared while one of its keystroke ingestions, scored with the
\* session's own typing profile, had not yet returned
C9_Witness ==
  /\ lastOp.op = "clearSession"
  /\ Unused(lastOp.sessionId)
  /\ \E i \in DOMAIN pending :
       /\ pending[i].sessionId = lastOp.sessionId
       /\ pending[i].kind = "keystroke"
  /\ \E i \in DOMAIN ingested[UnknownId] : ingested[UnknownId][i].kind = "transcript"

\* a FraudScore with the session id replaced
Renamed(f, sessionId, other) ==
  [f EXCEPT !.sessionId = IF @ = sessionId THEN other ELSE @]

\* C10: right after clearSession(s) every operation on s gives what it gives
\* on an id that was never used: endInterview and getSession find no session,
\* getLatestScore returns the zero/low default, getReport is empty, and each
\* ingestion appends, to an empty history, the snapshot it appends when
\* nothing was ever stored for s, which for an id other than the literal
\* "unknown" is the snapshot it would append for the unused id.
C10_ClearedIsNew ==
  lastOp.op = "clearSession" =>
    LET s == lastOp.sessionId
    IN /\ ~Has(sessions, s)
       /\ LatestScore(fraudSignals, s, now) = DefaultScore(s, now)
       /\ Report(s) = Report(NeverId)
       /\ Len(History(s)) = 0
       /\ ViewOf(s) = ViewOf(NeverId)
       /\ \A g \in Ingestions :
            LET mine == ScoreAfter(g[1], s, g[2])
                fresh == ScoreAfterIn(NeverStored(s), g[1], s, g[2])
                new == ScoreAfter(g[1], NeverId, g[2])
            IN /\ mine = fresh
               /\ s # UnknownId =>
                    /\ Visible(mine) = Renamed(Visible(new), NeverId, s)
                    /\ Len(mine.src.chunks) = Len(new.src.chunks)
                    /\ Len(mine.src.screenEvents) = Len(new.src.screenEvents)
                    /\ Len(mine.src.compileEvents) = Len(new.src.compileEvents)
                    /\ mine.src.codeSample = new.src.codeSample

\* a started session with a code sample and a snapshot, then cleared
C10_Witness ==
  /\ lastOp.op = "clearSession"
  /\ lastOp.sessionId \in GenIds
  /\ nOps = 3
  /\ \E i \in DOMAIN pending :
       pending[i].sessionId = lastOp.sessionId /\ pending[i].kind = "code"

\* C11: endInterview on an id without a session record fails with "Session
\* not found" and changes nothing that is stored (no record is created, no log
\* and no history is touched); on a known session it sets status to ended and
\* endedAt to the time of the call, and touches nothing else.
C11_EndInterview ==
  [][\A s \in Ids :
       endInterview(s) =>
         IF ~Has(sessions, s)
         THEN /\ lastOp'.result = NotFound
              /\ store' = store
              /\ ~Has(sessions', s)
         ELSE /\ lastOp'.result = [success |-> TRUE]
              /\ sessions'[s].status = "ended"
              /\ sessions'[s].endedAt = <<now>>
              /\ sessions' = Put(sessions, s, sessions'[s])
              /\ <<fraudSignals, transcriptChunks, screenEvents, compileEvents,
                   keystrokeEvents, codeSamples, ka>>'
                 = <<fraudSignals, transcriptChunks, screenEvents, compileEvents,
                     keystrokeEvents, codeSamples, ka>>]_vars

\* a failed endInterview on an id whose logs an ingestion has materialized
C11_Witness ==
  /\ lastOp.op = "endInterview"
  /\ lastOp.result = NotFound
  /\ Has(transcriptChunks, lastOp.sessionId)
  /\ Len(History(lastOp.sessionId)) > 0
  /\ ~Has(sessions, lastOp.sessionId)

\* a record is live until an end was recorded and ended from then on
C12_Status ==
  \A s \in Ids :
    Has(sessions, s) =>
      /\ sessions[s].status \in {"live", "ended"}
      /\ sessions[s].status = "live" <=> sessions[s].endedAt = << >>

\* a record appears as live, goes away only by clearSession, and changes its
\* status only from live to ended and only by endInterview
C12_Step ==
  \A s \in Ids :
    /\ (~Has(sessions, s) /\ Has(sessions', s)) => sessions'[s].status = "live"
    /\ (Has(sessions, s) /\ ~Has(sessions', s)) =>
         (lastOp'.op = "clearSession" /\ lastOp'.sessionId = s)
    /\ (Has(sessions, s) /\ Has(sessions', s)) =>
         /\ sessions[s].status = "ended" => sessions'[s].status = "ended"
         /\ sessions'[s].status # sessions[s].status => endInterview(s)

\* C12: no lifecycle transition reverses: a session that is ended is ended in
\* every later state until it is cleared, whatever start, end, ingestion and
\* read calls follow, and a session is live from its start until its first
\* end.
C12_NoReversal == [](C12_Status) /\ [][C12_Step]_vars

\* an ingestion on an ended session has returned, and the session is ended
C12_Witness ==
  /\ lastOp.op = "ack"
  /\ Has(sessions, lastOp.sessionId)
  /\ sessions[lastOp.sessionId].status = "ended"
  /\ Len(History(lastOp.sessionId)) > 0

\* C13: a session record changes only by endInterview and only as the
\* transition from live to ended: no ingestion or read changes a field of it,
\* and endInterview on a session that is already ended leaves the record, with
\* the endedAt of the first end, unchanged.
C13_RecordFrame ==
  [][\A s \in Ids :
       (Has(sessions, s) /\ Has(sessions', s) /\ sessions'[s] # sessions[s])
       => /\ endInterview(s)
          /\ sessions[s].status = "live"
          /\ sessions'[s].status = "ended"]_vars

\* C14: the transcript log of a session, as getReport returns it, lists the
\* chunks in the order in which they were ingested, whatever their startMs and
\* seq values are.
C14_ArrivalOrder ==
  \A s \in Ids : Report(s).chunks = OfKind(ingested[s], "transcript")

\* every ingestion call that returns, returns { success: true }
C15_Succeeds == lastOp.op = "ack" => lastOp.result = [success |-> TRUE]

\* the step of an ingestion call (the only step that adds a pending call) on
\* an id without a session record
C15_Step ==
  (Len(pending') = Len(pending) + 1 /\ ~Has(sessions, Last(pending').sessionId)) =>
    LET s == Last(pending').sessionId
        kind == Last(pending').kind
        event == Last(pending').event
    IN /\ sessions' = sessions
       /\ Has(fraudSignals', s)
       /\ Len(Get(fraudSignals', s)) = Len(History(s)) + 1
       /\ kind = "transcript" =>
            /\ Has(transcriptChunks', s)
            /\ SameBag(Get(transcriptChunks', s),
                       Append(Get(transcriptChunks, s), event))
       /\ kind = "screen" =>
            /\ Has(screenEvents', s)
            /\ screenEvents'[s] = Append(Get(screenEvents, s), event)
       /\ kind = "compile" =>
            /\ Has(compileEvents', s)
            /\ compileEvents'[s] = Append(Get(compileEvents, s), event)
       /\ kind = "keystroke" =>
            /\ Has(keystrokeEvents', s)
            /\ keystrokeEvents'[s] = Append(Get(keystrokeEvents, s), event)
       /\ kind = "code" => (Has(codeSamples', s) /\ codeSamples'[s] = event)

\* C15: an ingestion call on an id that has no session record succeeds,
\* materializes the log, appends the event, appends one snapshot to the
\* history of that id and creates no session record.
C15_PermissiveIngestion == [](C15_Succeeds) /\ [][C15_Step]_vars

\* a screen event ingested for an id without record has been acknowledged
C15_Witness ==
  /\ lastOp.op = "ack"
  /\ lastOp.arg.kind = "screen"
  /\ ~Has(sessions, lastOp.sessionId)
  /\ Has(screenEvents, lastOp.sessionId)
  /\ lastOp.arg.event \in Range(screenEvents[lastOp.sessionId])
  /\ Len(History(lastOp.sessionId)) > 0

\* what startInterview(s, d) leaves behind for the new session and for the
\* others: a live record, an empty history and empty transcript, screen and
\* compile logs under s, and everything held under another id as it was
StartedLive(s, d) ==
  /\ lastOp'.result = [sessionId |-> s]
  /\ Has(sessions', s)
  /\ sessions'[s].id = s
  /\ sessions'[s].status = "live"
  /\ sessions'[s].endedAt = << >>
  /\ sessions'[s].candidateId = d.candidateId
  /\ Get(fraudSignals', s) = << >>
  /\ Get(transcriptChunks', s) = << >>
  /\ Get(screenEvents', s) = << >>
  /\ Get(compileEvents', s) = << >>
  /\ \A o \in Ids \ {s} : ViewOf(o)' = ViewOf(o)

\* the keystroke log, the code sample and the analyzer hold nothing under s
NoTyping(s) ==
  /\ Get(keystrokeEvents, s) = << >>
  /\ ~Has(codeSamples, s)
  /\ ~Has(ka.events, s) /\ ~Has(ka.digraphs, s)
  /\ ~Has(ka.trigraphs, s) /\ ~Has(ka.profiles, s)

WeightedSum(src) ==
  src.typing.confidence * 30
  + src.code.confidence * 25
  + Points(Min2(src.behaviour.pasteBursts * 6, 15))
  + Points(Min2(src.behaviour.tabSwitches * 3, 10))
  + (IF src.behaviour.compileCount <= 1 /\ ~src.behaviour.spanEmpty
        /\ src.behaviour.sessionDuration > 300000
     THEN Points(10) ELSE 0)
  + (IF src.behaviour.suspiciousTiming THEN Points(5) ELSE 0)
  + (IF src.behaviour.mouseAnomalies THEN Points(3) ELSE 0)
  + (IF src.behaviour.applicationSwitching THEN Points(2) ELSE 0)

\* C17: the score of every snapshot is the clamp to [0, 100] of keystroke
\* confidence x 30 + stylometry confidence x 25 + min(pasteBursts x 6, 15)
\* + min(tabSwitches x 3, 10) + 10 for a long session with at most one compile
\* + 5 for suspicious timing + 3 for mouse anomalies + 2 for application
\* switching, for all values of the inputs.
C17_WeightedSum ==
  \A p \in Snapshots :
    LET f == History(p[1])[p[2]]
    IN f.score = Max2(0, Min2(Points(100), WeightedSum(f.src)))

\* the snapshot gives the reason code with the weight, in points
HasReason(f, code, points) ==
  \E i \in DOMAIN f.reasons :
    f.reasons[i].code = code /\ f.reasons[i].weight = Points(points)

\* the log of "s1" holds 3 PASTE and 4 WINDOW_SWITCH events spanning
\* 400 000 ms, there is no compile event, and the latest snapshot was computed
\* from that log
C18_Scenario ==
  /\ CountType(Get(screenEvents, "s1"), {"PASTE"}) = 3
  /\ CountType(Get(screenEvents, "s1"), {"WINDOW_SWITCH"}) = 4
  /\ Len(Get(screenEvents, "s1")) = 7
  /\ Get(compileEvents, "s1") = << >>
  /\ Len(History("s1")) = 7
  /\ Last(History("s1")).src.screenEvents = Get(screenEvents, "s1")
  /\ Last(History("s1")).src.behaviour.sessionDuration = 400000

\* C18: for a session with 3 PASTE events, 4 WINDOW_SWITCH events, no compile
\* event and a span of 400000 ms the snapshot has PASTE_BURST with weight 15,
\* TAB_SWITCHING with weight 10 and LOW_COMPILE with weight 10, and a score of
\* at least 35.
C18_ScenarioScore ==
  C18_Scenario =>
    /\ HasReason(Last(History("s1")), "PASTE_BURST", 15)
    /\ HasReason(Last(History("s1")), "TAB_SWITCHING", 10)
    /\ HasReason(Last(History("s1")), "LOW_COMPILE", 10)
    /\ Last(History("s1")).score >= Points(35)
    /\ LatestScore(fraudSignals, "s1", now).score >= Points(35)

\* the scenario's seventh event has been ingested and acknowledged
C18_Witness ==
  /\ C18_Scenario
  /\ lastOp.op = "ack"
  /\ lastOp.arg.event = Last(Get(screenEvents, "s1"))
  /\ pending = << >>

\* the place of a reason code in the evaluation order of the rules
RuleOrder ==
  <<"KEYSTROKE_ANOMALY", "CODE_STYLOMETRY_ANOMALY", "PASTE_BURST", "TAB_SWITCHING",
    "LOW_COMPILE", "SUSPICIOUS_TIMING", "MOUSE_ANOMALIES", "APPLICATION_SWITCHING">>
RuleIndex(code) == CHOOSE i \in DOMAIN RuleOrder : RuleOrder[i] = code

ReasonCodes(f) == [i \in DOMAIN f.reasons |-> f.reasons[i].code]

\* the codes in the order of their first occurrence
RECURSIVE FirstOccurrences(_)
FirstOccurrences(codes) ==
  IF codes = << >> THEN << >>
  ELSE IF Last(codes) \in Range(Front(codes)) THEN FirstOccurrences(Front(codes))
  ELSE Append(FirstOccurrences(Front(codes)), Last(codes))

\* the reasons follow the evaluation order; only the two analyzers' rules
\* give more than one reason
InRuleOrder(f) ==
  /\ \A i \in DOMAIN f.reasons : f.reasons[i].code \in Range(RuleOrder)
  /\ \A i \in DOMAIN f.reasons, j \in DOMAIN f.reasons :
       i < j =>
         \/ RuleIndex(f.reasons[i].code) < RuleIndex(f.reasons[j].code)
         \/ /\ f.reasons[i].code = f.reasons[j].code
            /\ f.reasons[i].code \in {"KEYSTROKE_ANOMALY", "CODE_STYLOMETRY_ANOMALY"}

\* C19 as stated: the reasons of every snapshot are in the evaluation order of
\* the rules, and two rescorings in which the same set of rules fires give
\* the same sequence of reason codes.
C19_SameCodeSequence ==
  /\ \A p \in Snapshots : InRuleOrder(History(p[1])[p[2]])
  /\ \A p \in Snapshots, q \in Snapshots :
       LET f == ReasonCodes(History(p[1])[p[2]])
           g == ReasonCodes(History(q[1])[q[2]])
       IN Range(f) = Range(g) => f = g

\* C19, amended: the reasons of every snapshot are in the evaluation order of
\* the rules, the keystroke and the stylometry rule giving one reason per
\* anomaly and every other rule one reason; two rescorings in which the same
\* set of rules fires give the same codes in the same order, the number of
\* reasons of the two analyzer rules apart.
C19_RuleOrder ==
  /\ \A p \in Snapshots :
       LET f == History(p[1])[p[2]]
       IN /\ InRuleOrder(f)
          /\ CountIn("KEYSTROKE_ANOMALY", ReasonCodes(f))
               = (IF f.src.typing.isSuspicious THEN Len(f.src.typing.anomalies) ELSE 0)
          /\ CountIn("CODE_STYLOMETRY_ANOMALY", ReasonCodes(f))
               = (IF f.src.code.isSuspicious THEN Len(f.src.code.anomalies) ELSE 0)
  /\ \A p \in Snapshots, q \in Snapshots :
       LET f == ReasonCodes(History(p[1])[p[2]])
           g == ReasonCodes(History(q[1])[q[2]])
       IN Range(f) = Range(g) => FirstOccurrences(f) = FirstOccurrences(g)

\* a snapshot with keystroke reasons followed by stylometry reasons
C19_Witness ==
  \E p \in Snapshots :
    LET f == ReasonCodes(History(p[1])[p[2]])
    IN /\ Len(f) >= 3
       /\ f[1] = "KEYSTROKE_ANOMALY"
       /\ Last(f) = "CODE_STYLOMETRY_ANOMALY"

\* C20 as stated: the digraph list of a session holds exactly one digraph
\* for each adjacent pair of its keystroke log that is a release followed by
\* a press with an in-band latency, and nothing else.
C20_DigraphsOnce ==
  \A s \in AllIds :
    SameBag(Get(ka.digraphs, s), analyzeDigraphs(s, Get(ka.events, s)))

(***************************************************************************)
(* KeystrokeAnalyzer (SpecAnalyzer)                                        *)
(***************************************************************************)
Log(s) == Get(ka.events, s)
Digraphs(s) == Get(ka.digraphs, s)
Arrived(s) == [i \in DOMAIN ingested[s] |-> ingested[s][i].event]
KeyPairs(digraphs) == {<<d.key1, d.key2>> : d \in Range(digraphs)}

\* the digraph list holds in-band latencies only, and the profile just
\* generated has a value for exactly the key pairs of the list
C21_Listed ==
  /\ \A d \in Range(Digraphs(AnalyzerId)) : d.latency >= 10 /\ d.latency <= 2000
  /\ lastOp.op = "generateTypingProfile" /\ Log(AnalyzerId) # << >>
       => DOMAIN lastOp.result.digraphLatencies = KeyPairs(Digraphs(AnalyzerId))

\* a press recorded right after a release, at latency L: the call returns,
\* and the pair is in the digraph list afterwards exactly if 10 <= L <= 2000
C21_Step ==
  lastOp'.op = "recordKeystroke" /\ nOps' = nOps + 1 /\ Log(AnalyzerId) # << >>
    => LET prev == Last(Log(AnalyzerId))
           next == lastOp'.arg
           L == next.t - prev.t
           listed == \E d \in Range(Get(ka'.digraphs, AnalyzerId)) :
                       /\ d.key1 = prev.key /\ d.key2 = next.key
                       /\ d.latency = L /\ d.timestamp = next.t
       IN prev.action = "up" /\ next.action = "down"
            => /\ Len(Get(ka'.events, AnalyzerId)) = Len(Log(AnalyzerId)) + 1
               /\ listed <=> (L >= 10 /\ L <= 2000)

\* C21: a release-to-press latency L between two adjacent events is in the
\* session's digraphs and typing profile if and only if 10 <= L <= 2000, both
\* ends included; a latency outside the band is dropped without an error.
C21_LatencyBand == [](C21_Listed) /\ [][C21_Step]_vars

\* latencies 10 and 2000 are listed, and the press just recorded came 2001 ms
\* after a release
C21_Witness ==
  /\ \E d \in Range(Digraphs(AnalyzerId)) : d.latency = 10
  /\ \E d \in Range(Digraphs(AnalyzerId)) : d.latency = 2000
  /\ lastOp.op = "recordKeystroke" /\ lastOp.arg.t = 2001
  /\ Len(Arrived(AnalyzerId)) >= 2
  /\ Arrived(AnalyzerId)[Len(Arrived(AnalyzerId)) - 1].action = "up"

\* the places of the log where a release, a press, a release and a press
\* follow one another, both release-to-press latencies within [10, 2000]
ThreeKeySequences(log) ==
  {i \in 1..(Len(log) - 3) :
     /\ log[i].action = "up" /\ log[i + 1].action = "down"
     /\ log[i + 2].action = "up" /\ log[i + 3].action = "down"
     /\ log[i + 1].t - log[i].t >= 10 /\ log[i + 1].t - log[i].t <= 2000
     /\ log[i + 3].t - log[i + 2].t >= 10 /\ log[i + 3].t - log[i + 2].t <= 2000}

\* C22 as stated: for every three-key sequence of the log with both
\* release-to-press latencies in the band a trigraph is recorded, and a
\* profile generated from the log has a trigraph latency for the key triple.
C22_TrigraphRecorded ==
  \A i \in ThreeKeySequences(Log(AnalyzerId)) :
    LET log == Log(AnalyzerId)
        triple == <<log[i].key, log[i + 1].key, log[i + 3].key>>
    IN /\ \E g \in Range(Get(ka.trigraphs, AnalyzerId)) :
            <<g.key1, g.key2, g.key3>> = triple
       /\ lastOp.op = "generateTypingProfile"
            => triple \in DOMAIN lastOp.result.trigraphLatencies

\* C23 as stated: the profile's value for each digraph key pair is the mean
\* of the latencies of the pair's qualifying adjacent occurrences in the
\* recorded log, each occurrence counted once.
C23_MeanOfOccurrences ==
  lastOp.op = "generateTypingProfile" /\ Arrived(AnalyzerId) # << >>
    => lastOp.result.digraphLatencies
         = groupDigraphsByKeyPair(analyzeDigraphs(AnalyzerId, Arrived(AnalyzerId)))

\* C24 as stated: the analyzer's log of a session is the recorded events in
\* arrival order whatever profiles were generated in between, and every
\* digraph of the list comes from a pair of events that arrived one right
\* after the other.
C24_LogInArrivalOrder ==
  /\ Log(AnalyzerId) = Arrived(AnalyzerId)
  /\ Range(Digraphs(AnalyzerId))
       \subseteq Range(analyzeDigraphs(AnalyzerId, Arrived(AnalyzerId)))

ProfileFields ==
  {"sessionId", "averageSpeed", "digraphLatencies", "trigraphLatencies",
   "keyHoldDurations", "pauseDistribution", "variance"}

\* C25: generateTypingProfile never fails, and for a session with no
\* keystroke events (never seen, or cleared) it returns averageSpeed 0, empty
\* digraph, trigraph and hold-duration mappings, no pauses and variance 0.
C25_EmptyProfile ==
  lastOp.op = "generateTypingProfile"
    => /\ DOMAIN lastOp.result = ProfileFields
       /\ lastOp.result.sessionId = AnalyzerId
       /\ Arrived(AnalyzerId) = << >>
            => /\ lastOp.result.averageSpeed = <<0, 1>>
               /\ DOMAIN lastOp.result.digraphLatencies = {}
               /\ DOMAIN lastOp.result.trigraphLatencies = {}
               /\ DOMAIN lastOp.result.keyHoldDurations = {}
               /\ lastOp.result.pauseDistribution = << >>
               /\ lastOp.result.variance = <<0, 1>>

\* a profile generated for a session that holds nothing, after other calls
C25_Witness ==
  /\ lastOp.op = "generateTypingProfile"
  /\ Arrived(AnalyzerId) = << >> /\ ~Has(ka.events, AnalyzerId)
  /\ nOps >= 3

\* the weight of a typing rule, in tenths, by the message it gives
TypingRuleWeight(message) ==
  CASE message = "Unusually uniform keystroke timing detected" -> 3
    [] message = "Unusually fast typing speed detected" -> 2
    [] message = "Unusually slow typing speed detected" -> 1
    [] message = "Frequent long pauses detected (possible copy-paste)" -> 2
    [] message = "Unusually consistent digraph timing detected" -> 2

FiredWeights(messages, weight(_)) == [i \in DOMAIN messages |-> weight(messages[i])]

\* C26 as stated: the confidence is the sum of the weights of the rules that
\* fire, fast and slow never both, it lies within [0, 1], and isSuspicious
\* holds exactly if the sum is greater than 0.3: rules that total exactly 0.3
\* do not make the profile suspicious.
C26_TypingConfidence ==
  lastOp.op = "detectTypingAnomalies"
    => LET v == lastOp.result
           total == SumSeq(FiredWeights(v.anomalies, TypingRuleWeight))
       IN /\ v.confidence = Min2(total, 10)
          /\ v.confidence >= 0 /\ v.confidence <= 10
          /\ ~ /\ "Unusually fast typing speed detected" \in Range(v.anomalies)
               /\ "Unusually slow typing speed detected" \in Range(v.anomalies)
          /\ v.isSuspicious <=> total > 3

(***************************************************************************)
(* Even typing (SpecEven)                                                  *)
(***************************************************************************)
\* C27: for ten key down/up pairs, each key held 80 ms and pressed 120 ms
\* after the one before, the generated profile has inter-key-press variance
\* 0 and detectTypingAnomalies reports the uniform-timing anomaly.
C27_EvenTyping ==
  /\ lastOp.op = "generateTypingProfile" => lastOp.result.variance = <<0, 1>>
  /\ lastOp.op = "detectTypingAnomalies"
       => /\ ka.profiles[AnalyzerId].variance = <<0, 1>>
          /\ "Unusually uniform keystroke timing detected" \in Range(lastOp.result.anomalies)

\* the verdict on the ten pairs, both keys used
C27_Witness ==
  /\ lastOp.op = "detectTypingAnomalies"
  /\ Len(Log(AnalyzerId)) = 20
  /\ \A i \in EvenPairs :
       /\ Log(AnalyzerId)[2 * i - 1].action = "down"
       /\ Log(AnalyzerId)[2 * i].action = "up"
       /\ Log(AnalyzerId)[2 * i].t - Log(AnalyzerId)[2 * i - 1].t = 80
       /\ i > 1 => Log(AnalyzerId)[2 * i - 1].t - Log(AnalyzerId)[2 * i - 3].t = 120
  /\ {Log(AnalyzerId)[i].key : i \in 1..20} = {"a", "b"}

(***************************************************************************)
(* CodeStylometryAnalyzer (SpecCode)                                       *)
(***************************************************************************)
\* features of a sample with a ternary, more than two direct returns, no
\* duplicate line and no comment, no other probability rule firing
TerseSample(features) ==
  /\ features.hasTernaryOperators /\ features.hasDirectReturns
  /\ ~features.hasDuplicateExpressions
  /\ features.commentRatio = <<0, 1>>
  /\ features.aiGeneratedProbability.tenths = 7

\* C28 as stated: for a sample with one ternary, three direct returns, no
\* duplicate line and comment ratio 0, no other rule firing,
\* aiGeneratedProbability is 0.7, the confidence of detectCodeAnomalies is at
\* least 0.7 and isSuspicious is true.
C28_TerseSample ==
  /\ lastOp.op = "analyzeCode" /\ TerseSample(lastOp.result)
       => lastOp.result.aiGeneratedProbability = [tenths |-> 7, ulp |-> 0]
  /\ lastOp.op = "detectCodeAnomalies" /\ TerseSample(lastOp.arg)
       => lastOp.result.confidence >= 7 /\ lastOp.result.isSuspicious

\* the weights, in tenths, of the rules of detectCodeAnomalies that the
\* features meet
CodeRuleWeights(features) ==
  <<IF MoreThanTenths(features.aiGeneratedProbability, 7) THEN 4 ELSE 0,
    IF features.hasTernaryOperators /\ features.hasDirectReturns THEN 3 ELSE 0,
    IF 100 * features.commentRatio[1] < 2 * features.commentRatio[2]
       /\ features.lineCount > 20 THEN 2 ELSE 0,
    IF features.complexityScore < 2 /\ features.lineCount > 30 THEN 2 ELSE 0,
    IF features.structuralPatterns.variableNamingPattern = "camelCase"
       /\ features.structuralPatterns.functionCount > 5 THEN 1 ELSE 0>>

\* C29 as stated: the confidence is min(1, sum of the weights of the rules
\* that fire), and isSuspicious is true exactly if that is greater than 0.3.
C29_CodeConfidence ==
  lastOp.op = "detectCodeAnomalies"
    => LET total == SumSeq(CodeRuleWeights(lastOp.arg))
       IN /\ lastOp.result.confidence = Min2(10, total)
          /\ lastOp.result.isSuspicious <=> Min2(10, total) > 3

(***************************************************************************)
(* Rescoring with empty logs (Spec)                                        *)
(***************************************************************************)
\* the start and end timestamps of the transcript, screen and compile logs a
\* snapshot was computed from
StartsOf(src) ==
  {c.startMs : c \in Range(src.chunks)} \cup {e.t : e \in Range(src.screenEvents)}
    \cup {e.t : e \in Range(src.compileEvents)}
EndsOf(src) ==
  {c.endMs : c \in Range(src.chunks)} \cup {e.t : e \in Range(src.screenEvents)}
    \cup {e.t : e \in Range(src.compileEvents)}

\* the duration spans the logs that hold something; without any, LOW_COMPILE
\* is not among the reasons
C30_Duration ==
  \A p \in Snapshots :
    LET f == History(p[1])[p[2]]
    IN IF StartsOf(f.src) = {}
       THEN "LOW_COMPILE" \notin Range(ReasonCodes(f))
       ELSE f.src.behaviour.sessionDuration
              = SetMax(EndsOf(f.src)) - SetMin(StartsOf(f.src))

\* every ingestion appends a snapshot to the history of its session
C30_Step ==
  Len(pending') = Len(pending) + 1
    => Len(Get(fraudSignals', lastOp'.sessionId))
         = Len(Get(fraudSignals, lastOp'.sessionId)) + 1

\* C30: rescoring never fails whichever logs are empty: an empty log gives no
\* bound to sessionDuration, and when the transcript, screen and compile logs
\* are all empty a snapshot is still appended and LOW_COMPILE does not fire.
C30_EmptyLogs == [](C30_Duration) /\ [][C30_Step]_vars

\* a snapshot appended for a session that has only keystrokes or only a code
\* sample, and one computed from a screen log alone
C30_Witness ==
  /\ lastOp.op = "ingest" /\ lastOp.arg.kind \in {"keystroke", "code"}
  /\ LET f == Last(History(lastOp.sessionId))
     IN /\ f.src.chunks = << >> /\ f.src.screenEvents = << >>
        /\ f.src.compileEvents = << >>
        /\ f.score >= 0
  /\ \E p \in Snapshots :
       LET g == History(p[1])[p[2]]
       IN g.src.chunks = << >> /\ g.src.screenEvents # << >> /\ g.src.compileEvents = << >>

(***************************************************************************)
(* Application switching (SpecSwitches)                                    *)
(***************************************************************************)
\* the APPLICATION_SWITCH events of the log stamped within the 30 seconds
\* before the moment at
SwitchesBefore(log, at) ==
  {i \in DOMAIN log :
     /\ log[i].type = "APPLICATION_SWITCH"
     /\ log[i].t <= at /\ at - log[i].t < 30000}

\* C31 as stated: applicationSwitching is true in a rescoring exactly if at
\* least 5 APPLICATION_SWITCH events of the session are stamped within the 30
\* seconds before the moment of scoring, and only then the snapshot has the
\* +2 of APPLICATION_SWITCHING.
C31_RecentSwitches ==
  \A i \in DOMAIN History("s1") :
    LET f == History("s1")[i]
        recent == Cardinality(SwitchesBefore(f.src.screenEvents, f.at)) >= 5
    IN /\ f.src.behaviour.applicationSwitching <=> recent
       /\ "APPLICATION_SWITCHING" \in Range(ReasonCodes(f)) <=> recent

(***************************************************************************)
(* Negative timestamps (SpecStamped)                                       *)
(***************************************************************************)
\* the events of a log that are not stamped before zero
FromZero(log) == SelectSeq(log, LAMBDA e : e.t >= 0)

\* the snapshot a rescoring at the moment at gives for the screen and compile
\* logs without their negative-stamped events
WithoutNegative(f) ==
  Rescore("s1", Put(EmptyMap, "s1", << >>),
          Put(EmptyMap, "s1", FromZero(f.src.screenEvents)),
          Put(EmptyMap, "s1", FromZero(f.src.compileEvents)), EmptyMap, EmptyMap,
          [events |-> EmptyMap, digraphs |-> EmptyMap, trigraphs |-> EmptyMap,
           profiles |-> EmptyMap], f.at).score

\* C32 as stated: an event with a negative timestamp is accepted and left out
\* of the feature computation, so every snapshot has the sessionDuration, the
\* score and the reasons that the logs without those events give.
C32_NegativeDiscarded ==
  \A i \in DOMAIN History("s1") :
    LET f == History("s1")[i]
        g == WithoutNegative(f)
    IN /\ f.src.behaviour.sessionDuration = g.src.behaviour.sessionDuration
       /\ f.score = g.score
       /\ ReasonCodes(f) = ReasonCodes(g)

(***************************************************************************)
(* Repeated ingestion (SpecTwice)                                          *)
(***************************************************************************)
\* the log of the session that the ingestion of a kind appends to
LogOf(kind, s) ==
  CASE kind = "transcript" -> Get(transcriptChunks, s)
    [] kind = "screen" -> Get(screenEvents, s)
    [] kind = "compile" -> Get(compileEvents, s)
    [] kind = "keystroke" -> Get(keystrokeEvents, s)

\* the events of a kind that the session was sent, in the order of the calls
SentOf(kind, s) ==
  LET calls == SelectSeq(ingested[s], LAMBDA c : c.kind = kind)
  IN [i \in DOMAIN calls |-> calls[i].event]

\* C33: ingestion is not idempotent.  Every log holds an event as many times
\* as it was ingested (twice for an event ingested twice), and the score
\* history has one snapshot per ingestion call: no call deduplicates, and
\* none is retried.
C33_NotIdempotent ==
  /\ \A kind \in {"transcript", "screen", "compile", "keystroke"} :
       /\ Len(LogOf(kind, "s1")) = Len(SentOf(kind, "s1"))
       /\ \A e \in Range(SentOf(kind, "s1")) :
            CountIn(e, LogOf(kind, "s1")) = CountIn(e, SentOf(kind, "s1"))
  /\ Len(History("s1")) = Len(ingested["s1"])

\* the same compile event was ingested twice
C33_Witness ==
  /\ \E i, j \in DOMAIN Get(compileEvents, "s1") :
       i < j /\ Get(compileEvents, "s1")[i] = Get(compileEvents, "s1")[j]
  /\ Len(History("s1")) >= 2

(***************************************************************************)
(* Reads (SpecReads)                                                       *)
(***************************************************************************)
ReadOps == {"getSession", "getAllSessions", "getLatestScore", "getReport"}

\* what getReport has to return for a session that was sent the events in
\* ingested and was not cleared since
FullReport(r, s) ==
  /\ r.session = IF Has(sessions, s) THEN <<sessions[s]>> ELSE << >>
  /\ r.scores = History(s)
  /\ Len(r.scores) = Len(ingested[s])
  /\ SameBag(r.chunks, SentOf("transcript", s))
  /\ r.events = SentOf("screen", s)
  /\ r.compiles = SentOf("compile", s)

\* C34: getSession, getAllSessions, getLatestScore and getReport change no
\* session record, raw log, derived state or score history, and getReport
\* returns the session record with all the snapshots, transcript chunks,
\* screen events and compile events of the session.
C34_Reads ==
  [][(lastOp'.op \in ReadOps /\ nOps' = nOps + 1)
       => /\ UNCHANGED <<store, pending, ingested>>
          /\ lastOp'.op = "getReport" => FullReport(lastOp'.result, lastOp'.sessionId)]_vars

\* a report of a session with two snapshots and a chunk
C34_Witness ==
  /\ lastOp.op = "getReport"
  /\ lastOp.sessionId = "s1"
  /\ Len(lastOp.result.scores) = 2
  /\ Len(lastOp.result.chunks) >= 1
  /\ Len(lastOp.result.session) = 1

(***************************************************************************)
(* Thresholds of the fusion rules (SpecGates)                              *)
(***************************************************************************)
Listed(f, code) == code \in Range(ReasonCodes(f))

\* the weighted sum in which the four gated rules add their weight only at or
\* above their threshold, in tenths of a point
GatedSum(src) ==
  (IF src.typing.isSuspicious THEN src.typing.confidence * 30 ELSE 0)
  + (IF src.code.isSuspicious THEN src.code.confidence * 25 ELSE 0)
  + (IF src.behaviour.pasteBursts >= 2
     THEN Points(Min2(src.behaviour.pasteBursts * 6, 15)) ELSE 0)
  + (IF src.behaviour.tabSwitches >= 3
     THEN Points(Min2(src.behaviour.tabSwitches * 3, 10)) ELSE 0)
  + (IF src.behaviour.compileCount <= 1 /\ ~src.behaviour.spanEmpty
        /\ src.behaviour.sessionDuration > 300000
     THEN Points(10) ELSE 0)
  + (IF src.behaviour.suspiciousTiming THEN Points(5) ELSE 0)
  + (IF src.behaviour.mouseAnomalies THEN Points(3) ELSE 0)
  + (IF src.behaviour.applicationSwitching THEN Points(2) ELSE 0)

\* C35: a fusion rule adds to the score only when it also appends its reason.
\* PASTE_BURST is listed and counted exactly if pasteBursts >= 2, TAB_SWITCHING
\* exactly if tabSwitches >= 3, KEYSTROKE_ANOMALY and CODE_STYLOMETRY_ANOMALY
\* exactly if the verdict of the analyzer is suspicious; below the threshold
\* the rule adds 0 and lists nothing.
C35_Gates ==
  \A i \in DOMAIN History(UnknownId) :
    LET f == History(UnknownId)[i]
    IN /\ Listed(f, "PASTE_BURST") <=> f.src.behaviour.pasteBursts >= 2
       /\ Listed(f, "TAB_SWITCHING") <=> f.src.behaviour.tabSwitches >= 3
       /\ Listed(f, "KEYSTROKE_ANOMALY") <=> f.src.typing.isSuspicious
       /\ Listed(f, "CODE_STYLOMETRY_ANOMALY") <=> f.src.code.isSuspicious
       /\ f.score = Clamp(GatedSum(f.src))

\* the history has a snapshot below both behavioural thresholds with counts
\* that are not 0, and one whose typing verdict has a confidence above 0 and
\* is not suspicious; both score 0
C35_Witness ==
  /\ \E i \in DOMAIN History(UnknownId) :
       /\ History(UnknownId)[i].src.behaviour.pasteBursts = 1
       /\ History(UnknownId)[i].src.behaviour.tabSwitches = 2
       /\ History(UnknownId)[i].score = 0
  /\ \E i \in DOMAIN History(UnknownId) :
       /\ History(UnknownId)[i].src.typing.confidence > 0
       /\ ~History(UnknownId)[i].src.typing.isSuspicious
       /\ History(UnknownId)[i].score = 0

(***************************************************************************)
(* One keystroke event, and none (SpecAnalyzer)                            *)
(***************************************************************************)
\* C36: detectTypingAnomalies on a session whose log holds a single event and
\* whose profile was generated fires the uniform-timing, the too-slow and the
\* consistent-digraph rule and no other, and reports isSuspicious = true; on a
\* session without keystroke event it reports confidence 0, no anomaly and
\* isSuspicious = false.
C36_OneEventOrNone ==
  lastOp.op = "detectTypingAnomalies" =>
    /\ Len(Log(AnalyzerId)) = 1 /\ Has(ka.profiles, AnalyzerId)
         => /\ lastOp.result.anomalies =
                 <<"Unusually uniform keystroke timing detected",
                   "Unusually slow typing speed detected",
                   "Unusually consistent digraph timing detected">>
            /\ lastOp.result.isSuspicious
    /\ Len(Log(AnalyzerId)) = 0
         => lastOp.result = [isSuspicious |-> FALSE, anomalies |-> << >>, confidence |-> 0]

\* the verdict on a log of one event whose profile was generated
C36_Witness ==
  /\ lastOp.op = "detectTypingAnomalies"
  /\ Len(Log(AnalyzerId)) = 1 /\ Has(ka.profiles, AnalyzerId)
  /\ lastOp.result.isSuspicious
  /\ Len(lastOp.result.anomalies) = 3

(***************************************************************************)
(* Suspicious timing (SpecTiming)                                          *)
(***************************************************************************)
GapsOf(sorted) == [i \in 1..(Len(sorted) - 1) |-> sorted[i + 1].startMs - sorted[i].endMs]

\* C37 as stated: if no two chunks overlap (every gap between consecutive
\* chunks in the order of startMs is at least 0) and there are at most 13
\* chunks, suspiciousTiming is false; the rule fires on so few chunks only if
\* some gap is negative.
C37_NoOverlapNoTiming ==
  lastOp.op = "detectSuspiciousTiming" /\ Len(lastOp.arg) <= 13
    /\ (\A i \in DOMAIN GapsOf(lastOp.arg) : GapsOf(lastOp.arg)[i] >= 0)
    => ~lastOp.result

(***************************************************************************)
(* Code samples (SpecSamples)                                              *)
(***************************************************************************)
\* the sample submitted last among the first i ingestions of the session, or
\* the empty text if there is none
LatestSample(s, i) ==
  LET sent == {j \in 1..i : ingested[s][j].kind = "code"}
  IN IF sent = {} THEN EmptyCode
     ELSE ingested[s][CHOOSE j \in sent : \A k \in sent : k <= j].event

\* the reasons of a snapshot that the code-stylometry rule appended
CodeReasons(f) == SelectSeq(f.reasons, LAMBDA r : r.code = "CODE_STYLOMETRY_ANOMALY")

\* what the code-stylometry rule contributes for a sample
CodeRule(c, f) ==
  Rules(f.src.typing, detectCodeAnomalies(analyzeCode(c)), f.src.behaviour)[2]

\* C38: a rescoring uses the sample submitted last and no other.  Every
\* snapshot has the code-stylometry reasons and score of the sample that was
\* the latest when it was computed, as if that sample alone had been
\* submitted, and a snapshot computed before any sample was submitted has no
\* CODE_STYLOMETRY_ANOMALY reason.
C38_LatestSample ==
  \A i \in DOMAIN History("s1") :
    LET f == History("s1")[i]
        c == LatestSample("s1", i)
    IN /\ f.src.codeSample = c
       /\ CodeReasons(f) = CodeRule(c, f).reasons
       /\ f.score = Clamp(CodeRule(c, f).raw
                          + GatedSum([f.src EXCEPT !.code = NoAnomalies]))
       /\ c = EmptyCode => CodeReasons(f) = << >>

\* a second sample was submitted after a first with another verdict, and the
\* session was rescored after that
C38_Witness ==
  /\ Len(History("s1")) = 3
  /\ ingested["s1"][1].kind = "code" /\ ingested["s1"][1].event = AiCode
  /\ ingested["s1"][2].kind = "code" /\ ingested["s1"][2].event = TerseCode
  /\ ingested["s1"][3].kind = "screen"
  /\ CodeReasons(History("s1")[1]) # << >>
  /\ CodeReasons(History("s1")[3]) = << >>

\* the stored state a submission of the sample leaves, whatever the language
AfterSample(s, code) ==
  /\ codeSamples' = Put(codeSamples, s, code)
  /\ fraudSignals' =
       Put(fraudSignals, s,
           Append(Get(fraudSignals, s),
                  Rescore(s, transcriptChunks, screenEvents, compileEvents,
                          keystrokeEvents, Put(codeSamples, s, code), ka, now).score))
  /\ UNCHANGED <<sessions, screenEvents, compileEvents, keystrokeEvents>>

\* C39: the snapshot appended by a submission of a code sample does not depend
\* on the language passed.  The stored state, the score and the reasons after
\* the call are those that the session, the sample and the state before the
\* call determine, the same for every language.
C39_LanguageIgnored ==
  [][(lastOp'.op = "ingest" /\ lastOp'.arg.kind = "code" /\ nOps' = nOps + 1)
       => AfterSample(lastOp'.sessionId, lastOp'.arg.event)]_vars

\* a suspicious sample was submitted as python, and its snapshot lists the
\* stylometry anomalies
C39_Witness ==
  /\ lastOp.op = "ingest" /\ lastOp.arg.kind = "code"
  /\ lastOp.language = "python"
  /\ lastOp.arg.event = AiCode
  /\ CodeReasons(Last(History("s1"))) # << >>

(***************************************************************************)
(* Score and reason weights (SpecFusion)                                   *)
(***************************************************************************)
BehaviourCodes ==
  {"PASTE_BURST", "TAB_SWITCHING", "LOW_COMPILE", "SUSPICIOUS_TIMING",
   "MOUSE_ANOMALIES", "APPLICATION_SWITCHING"}

ReasonWeights(f) == [i \in DOMAIN f.reasons |-> f.reasons[i].weight]

\* C40: in every snapshot in which no keystroke and no code-stylometry anomaly
\* fires, the score is the sum of the weights of the listed reasons, and each
\* of PASTE_BURST, TAB_SWITCHING, LOW_COMPILE, SUSPICIOUS_TIMING,
\* MOUSE_ANOMALIES and APPLICATION_SWITCHING is listed at most once.
C40_ReasonWeights ==
  \A i \in DOMAIN History("s1") :
    LET f == History("s1")[i]
    IN ~f.src.typing.isSuspicious /\ ~f.src.code.isSuspicious
         => /\ f.score = SumSeq(ReasonWeights(f))
            /\ \A code \in BehaviourCodes : CountIn(code, ReasonCodes(f)) <= 1

\* a snapshot without keystroke or stylometry anomaly in which four of the
\* behavioural rules fire: 12 for two pastes, 9 for three tab switches, 10
\* for the long session without compile, 2 for five application switches
C40_Witness ==
  \E i \in DOMAIN History("s1") :
    LET f == History("s1")[i]
    IN /\ ~f.src.typing.isSuspicious /\ ~f.src.code.isSuspicious
       /\ Listed(f, "PASTE_BURST") /\ Listed(f, "TAB_SWITCHING")
       /\ Listed(f, "LOW_COMPILE") /\ Listed(f, "APPLICATION_SWITCHING")
       /\ f.score = Points(12 + 9 + 10 + 2)

====
